---- MODULE Spec2Model ----
(***************************************************************************)
(* Verification model of the website repository.                           *)
(*                                                                         *)
(*  - Spec             the PocketCastsIcon component and its callers        *)
(*                     (src/components/icons/pocket-casts.tsx)              *)
(*  - SpecRepetition   Effect.repeat, repeatN, repeatOrElse and schedule    *)
(*  - SpecCondition    Effect.repeat with an until or while condition       *)
(*  - SpecConcurrency  the concurrency annotation and propertyOrder         *)
(*  - SpecRedacted     Redacted.make, value and unsafeWipe                  *)
(*  - SpecAsync        decoding a schema with an async transformation       *)
(*  - SpecParse        struct decoding with parse options, TreeFormatter    *)
(*                     and ArrayFormatter                                   *)
(*  - SpecMessage      the message annotation on a chain of refinements     *)
(*  - SpecFallback     the decodingFallback annotation                      *)
(*  - SpecOption       the codec OptionFromNonEmptyTrimmedString            *)
(*  - SpecSafeDecode   SafeDecode(self), decoding to an Either              *)
(*  - SpecPages        the struct decoding calls two pages document         *)
(*                                                                         *)
(* The specifications other than Spec model the library operations the     *)
(* documentation pages under content/docs describe, run on the programs of *)
(* those pages.  Every specification keeps the variables of the others at  *)
(* their idle values.                                                      *)
(*                                                                         *)
(* A class string is modelled as the sequence of its whitespace separated  *)
(* class names; an absent (undefined) className is a value of its own.     *)
(***************************************************************************)
EXTENDS Integers, Sequences, FiniteSets, TLC

VARIABLES
    displayName,     \* PocketCastsIcon.displayName
    renders,         \* the renders made so far, oldest first
    op,              \* repetition: which operator the program was built with
    action,          \* repetition: which of the page's two actions is repeated
    times,           \* repetition: n of Schedule.recurs(n) / repeatN(action, n)
    failAfter,       \* repetition: the counting action fails once count > failAfter
    count,           \* repetition: the page's `let count = 0`
    recurrences,     \* repetition: recurrences the schedule has granted so far
    pc,              \* repetition: position of the running program
    log,             \* repetition: console output, oldest first
    handlerCalls,    \* repetition: arguments of the orElse handler invocations
    exit,            \* repetition: the Exit of the program
    untilOption,     \* condition: the option used, until or while
    untilPred,       \* condition: the results n for which the predicate p(n) holds
    untilCount,      \* condition: the page's `let count = 0`
    untilPc,         \* condition: position of the running program
    untilLog,        \* condition: the n of each `Action called n time(s)` line
    untilExit,       \* condition: the result the program completed with, 0 before
    schemaKind,      \* concurrency: Tuple or Struct
    durations,       \* concurrency: the sleep of each member's effect, in time units
    concurrency,     \* concurrency: the schema's concurrency annotation
    propertyOrder,   \* concurrency: the propertyOrder parse option
    inputOrder,      \* concurrency: the members in the key order of the input
    taskStatus,      \* concurrency: pending, running or done, per member
    remaining,       \* concurrency: time left of each running member's sleep
    events,          \* concurrency: the starts and completions, oldest first
    output,          \* concurrency: the members in the key order of the result
    decodePc,        \* concurrency: position of the decode
    instances,       \* redacted: the value each Redacted instance was made from
    registry,        \* redacted: the instances that still hold a value, and the value
    redEvents,       \* redacted: the calls made so far, oldest first
    decoder,         \* async: the decoding function used
    transformDelay,  \* async: time units the schema's decode sleeps, 0 if synchronous
    asyncInput,      \* async: the unknown input
    asyncPc,         \* async: position of the decode
    asyncRemaining,  \* async: time left of the decode's sleep
    asyncResult,     \* async: what the decoding function produced
    parseSchema,     \* parse: the schema decoded against
    parseInput,      \* parse: the unknown input
    parseOptions,    \* parse: the options passed to the decoding function
    missingFirst,    \* parse: whether missing keys are reported before excess ones
    parsePc,         \* parse: position of the program
    parseResult,     \* parse: the result of decodeUnknownEither
    treeOutput,      \* parse: the lines of TreeFormatter.formatErrorSync
    arrayOutput,     \* parse: the entries of ArrayFormatter.formatErrorSync
    messages,        \* messages: the message annotations of String, minLength and maxLength
    msgInput,        \* messages: the unknown input
    msgPc,           \* messages: position of the program
    msgResult,       \* messages: the outcome of the decode
    msgThrown,       \* messages: the lines of e.message
    fbFallback,      \* fallback: the decodingFallback annotation of the schema
    fbInput,         \* fallback: the unknown input
    fbPc,            \* fallback: position of the decode
    fbIssue,         \* fallback: the issue the decode failed with
    fbCalls,         \* fallback: the arguments the fallback was called with
    fbLog,           \* fallback: the messages logged
    fbRemaining,     \* fallback: time left of the fallback's sleep
    fbProduced,      \* fallback: what the fallback's effect completed with
    fbResult,        \* fallback: the result of the decode
    optTrims,        \* option: whether decode puts the trimmed string into the Option
    optStart,        \* option: the first call of the program, encode or decode
    optPc,           \* option: position of the program
    optValue,        \* option: the Option<string> to encode
    optEncoded,      \* option: the string encoded to, or given to decode
    optDecoded,      \* option: the Option decoded
    safeSelf,        \* safe decode: the schema SafeDecode wraps
    safeStart,       \* safe decode: the first call of the program, decode or encode
    safePc,          \* safe decode: position of the program
    safeInput,       \* safe decode: the unknown input
    safeActual,      \* safe decode: the Either handed to encode
    safeDecoded,     \* safe decode: the result of decoding
    safeEncoded,     \* safe decode: the result of encoding
    pageName,        \* pages: the page whose example is run
    pageSchema,      \* pages: the schema decoded against
    pageInput,       \* pages: the unknown input
    pageOptions,     \* pages: the options passed to the decoding function
    pagePc,          \* pages: position of the program
    pageResult,      \* pages: the outcome of the decode
    pageThrown       \* pages: the lines of the ParseError's message

iconVars ==
    <<displayName, renders>>

repVars ==
    <<op, action, times, failAfter, count, recurrences, pc, log,
      handlerCalls, exit>>

untilVars ==
    <<untilOption, untilPred, untilCount, untilPc, untilLog, untilExit>>

concVars ==
    <<schemaKind, durations, concurrency, propertyOrder, inputOrder,
      taskStatus, remaining, events, output, decodePc>>

redVars ==
    <<instances, registry, redEvents>>

asyncVars ==
    <<decoder, transformDelay, asyncInput, asyncPc, asyncRemaining,
      asyncResult>>

parseVars ==
    <<parseSchema, parseInput, parseOptions, missingFirst, parsePc,
      parseResult, treeOutput, arrayOutput>>

msgVars ==
    <<messages, msgInput, msgPc, msgResult, msgThrown>>

fbVars ==
    <<fbFallback, fbInput, fbPc, fbIssue, fbCalls, fbLog, fbRemaining,
      fbProduced, fbResult>>

optVars ==
    <<optTrims, optStart, optPc, optValue, optEncoded, optDecoded>>

safeVars ==
    <<safeSelf, safeStart, safePc, safeInput, safeActual, safeDecoded,
      safeEncoded>>

pageVars ==
    <<pageName, pageSchema, pageInput, pageOptions, pagePc, pageResult,
      pageThrown>>

vars ==
    <<displayName, renders, op, action, times, failAfter, count,
      recurrences, pc, log, handlerCalls, exit, untilOption, untilPred,
      untilCount, untilPc, untilLog, untilExit, schemaKind, durations,
      concurrency, propertyOrder, inputOrder, taskStatus, remaining,
      events, output, decodePc, instances, registry, redEvents, decoder,
      transformDelay, asyncInput, asyncPc, asyncRemaining, asyncResult,
      parseSchema, parseInput, parseOptions, missingFirst, parsePc,
      parseResult, treeOutput, arrayOutput, messages, msgInput, msgPc,
      msgResult, msgThrown, fbFallback, fbInput, fbPc, fbIssue, fbCalls,
      fbLog, fbRemaining, fbProduced, fbResult, optTrims, optStart, optPc,
      optValue, optEncoded, optDecoded, safeSelf, safeStart, safePc,
      safeInput, safeActual, safeDecoded, safeEncoded, pageName,
      pageSchema, pageInput, pageOptions, pagePc, pageResult, pageThrown>>

\* Every variable outside iconVars.
notIconVars ==
    <<repVars, untilVars, concVars, redVars, asyncVars, parseVars, msgVars,
      fbVars, optVars, safeVars, pageVars>>

\* Every variable outside repVars.
notRepVars ==
    <<iconVars, untilVars, concVars, redVars, asyncVars, parseVars,
      msgVars, fbVars, optVars, safeVars, pageVars>>

\* Every variable outside untilVars.
notUntilVars ==
    <<iconVars, repVars, concVars, redVars, asyncVars, parseVars, msgVars,
      fbVars, optVars, safeVars, pageVars>>

\* Every variable outside concVars.
notConcVars ==
    <<iconVars, repVars, untilVars, redVars, asyncVars, parseVars, msgVars,
      fbVars, optVars, safeVars, pageVars>>

\* Every variable outside redVars.
notRedVars ==
    <<iconVars, repVars, untilVars, concVars, asyncVars, parseVars,
      msgVars, fbVars, optVars, safeVars, pageVars>>

\* Every variable outside asyncVars.
notAsyncVars ==
    <<iconVars, repVars, untilVars, concVars, redVars, parseVars, msgVars,
      fbVars, optVars, safeVars, pageVars>>

\* Every variable outside parseVars.
notParseVars ==
    <<iconVars, repVars, untilVars, concVars, redVars, asyncVars, msgVars,
      fbVars, optVars, safeVars, pageVars>>

\* Every variable outside msgVars.
notMsgVars ==
    <<iconVars, repVars, untilVars, concVars, redVars, asyncVars,
      parseVars, fbVars, optVars, safeVars, pageVars>>

\* Every variable outside fbVars.
notFbVars ==
    <<iconVars, repVars, untilVars, concVars, redVars, asyncVars,
      parseVars, msgVars, optVars, safeVars, pageVars>>

\* Every variable outside optVars.
notOptVars ==
    <<iconVars, repVars, untilVars, concVars, redVars, asyncVars,
      parseVars, msgVars, fbVars, safeVars, pageVars>>

\* Every variable outside safeVars.
notSafeVars ==
    <<iconVars, repVars, untilVars, concVars, redVars, asyncVars,
      parseVars, msgVars, fbVars, optVars, pageVars>>

\* Every variable outside pageVars.
notPageVars ==
    <<iconVars, repVars, untilVars, concVars, redVars, asyncVars,
      parseVars, msgVars, fbVars, optVars, safeVars>>

-----------------------------------------------------------------------------
(* Bounds *)

MaxRenders == 3

\* Largest n of Schedule.recurs(n) and Effect.repeatN(action, n).
MaxRecurs == 3

\* Largest threshold of the counting action's `count > threshold` test.
MaxFailAfter == 2

-----------------------------------------------------------------------------
(* Class strings *)

Undefined == [defined |-> FALSE, tokens |-> <<>>]

Str(ts) == [defined |-> TRUE, tokens |-> ts]

\* The className values the callers pass: absent, "", and three class strings.
ClassNames ==
    { Undefined,
      Str(<<>>),
      Str(<<"h-4", "w-4">>),
      Str(<<"fill-red-500">>),
      Str(<<"h-4", "fill-current">>) }

\* Further props a caller may put into the props object next to className.
OtherProps == { "none", "id=a", "id=b" }

Props == [className : ClassNames, other : OtherProps]

-----------------------------------------------------------------------------
(* cn of @/lib/utils: twMerge(clsx(inputs)) *)

RECURSIVE clsx(_)
\* clsx: the falsy inputs (undefined, "") are skipped, the others joined.
clsx(inputs) ==
    IF inputs = <<>> THEN <<>>
    ELSE LET h == Head(inputs)
         IN (IF h.defined THEN h.tokens ELSE <<>>) \o clsx(Tail(inputs))

\* The tailwind class group a class name belongs to.
ClassGroup(t) ==
    CASE t \in {"fill-current", "fill-red-500"} -> "fill"
      [] t = "h-4" -> "h"
      [] t = "w-4" -> "w"
      [] OTHER -> t

RECURSIVE twMerge(_)
\* twMerge: a class is dropped when a later class of the same group follows.
twMerge(ts) ==
    IF ts = <<>> THEN <<>>
    ELSE LET h == Head(ts)
             rest == Tail(ts)
         IN IF \E i \in 1..Len(rest) : ClassGroup(rest[i]) = ClassGroup(h)
            THEN twMerge(rest)
            ELSE <<h>> \o twMerge(rest)

cn(inputs) == Str(twMerge(clsx(inputs)))

-----------------------------------------------------------------------------
(* PocketCastsIcon *)

PathD == "M128 20C187.65 20 236 68.3503 236 128C236 187.65 187.65 236 128 236C68.3503 236 20 187.65 20 128C20 68.3503 68.3503 20 128 20ZM128 211.997C81.6072 211.997 44.003 174.393 44.003 128C44.003 81.6072 81.6072 44.003 128 44.003V64.9955C115.541 64.9955 103.361 68.6901 93.001 75.6121C82.6412 82.5341 74.5667 92.3726 69.7983 103.883C65.03 115.394 63.782 128.061 66.2122 140.281C68.6425 152.501 74.6418 163.726 83.4515 172.537C92.2612 181.348 103.486 187.348 115.706 189.78C127.926 192.211 140.592 190.965 152.104 186.198C163.615 181.43 173.454 173.357 180.377 162.998C187.301 152.639 190.996 140.459 190.998 128H211.997C211.997 174.4 174.393 211.997 128 211.997ZM77.5977 128C77.5977 114.632 82.908 101.812 92.3602 92.3602C101.812 82.908 114.632 77.5978 128 77.5978V95.924C121.658 95.9253 115.459 97.8071 110.186 101.331C104.913 104.856 100.804 109.864 98.3773 115.724C95.9509 121.584 95.3164 128.031 96.554 134.251C97.7916 140.471 100.846 146.185 105.33 150.67C109.815 155.154 115.529 158.208 121.749 159.446C127.969 160.684 134.416 160.049 140.276 157.623C146.136 155.196 151.144 151.087 154.669 145.814C158.193 140.541 160.075 134.342 160.076 128H178.402C178.402 141.368 173.092 154.188 163.64 163.64C154.188 173.092 141.368 178.402 128 178.402C114.632 178.402 101.812 173.092 92.3602 163.64C82.908 154.188 77.5977 141.368 77.5977 128Z"

\* The <path> child.
PathElement ==
    [type |-> "path", fillRule |-> "evenodd", clipRule |-> "evenodd", d |-> PathD]

\* As SvgElement, but with the 24-unit view box of the other icon sets.
SvgElementSmallBox(class, forwarded) ==
    [type |-> "svg",
     xmlns |-> "http://www.w3.org/2000/svg",
     viewBox |-> IF class.tokens = <<"fill-current">> THEN "0 0 256 256" ELSE "0 0 24 24",
     className |-> class,
     forwarded |-> forwarded,
     children |-> <<PathElement>>]

\* The <svg> element; forwarded holds any caller prop spread onto it.
SvgElement(class, forwarded) ==
    [type |-> "svg",
     xmlns |-> "http://www.w3.org/2000/svg",
     viewBox |-> "0 0 256 256",
     className |-> class,
     forwarded |-> forwarded,
     children |-> <<PathElement>>]

\* A call the component makes into another file of the repository.
CnCall(args) == [module |-> "@/lib/utils", fn |-> "cn", args |-> args]

\* As PocketCastsIcon, but the remaining props are spread onto the svg.
PocketCastsIconSpread(props) ==
    LET args == <<Str(<<"fill-current">>), props.className>>
    IN [outcome |-> "returned",
        element |-> SvgElement(cn(args), props.other),
        propsAfter |-> props,
        calls |-> <<CnCall(args)>>]

\* As PocketCastsIcon, but className is dereferenced before it is merged.
PocketCastsIconThrows(props) ==
    LET args == <<Str(<<"fill-current">>), props.className>>
    IN [outcome |-> IF props.className.defined THEN "returned" ELSE "threw",
        element |-> IF props.className.defined
                    THEN SvgElement(cn(args), "none")
                    ELSE [type |-> "none"],
        propsAfter |-> props,
        calls |-> <<CnCall(args)>>]

\* As PocketCastsIcon, but the merged class is written back into the props.
PocketCastsIconMutatesProps(props) ==
    LET args == <<Str(<<"fill-current">>), props.className>>
    IN [outcome |-> "returned",
        element |-> SvgElement(cn(args), "none"),
        propsAfter |-> [props EXCEPT !.className = cn(args)],
        calls |-> <<CnCall(args)>>]

\* As PocketCastsIcon, but the class is also run through a second module.
PocketCastsIconViaIcons(props) ==
    LET args == <<Str(<<"fill-current">>), props.className>>
    IN [outcome |-> "returned",
        element |-> SvgElement(cn(args), "none"),
        propsAfter |-> props,
        calls |-> <<CnCall(args),
                    [module |-> "@/components/icons", fn |-> "Icon", args |-> args]>>]

\* As PocketCastsIcon, but the base class is passed after the caller's classes.
PocketCastsIconBaseLast(props) ==
    LET args == <<props.className, Str(<<"fill-current">>)>>
    IN [outcome |-> "returned",
        element |-> SvgElement(cn(args), "none"),
        propsAfter |-> props,
        calls |-> <<CnCall(args)>>]

\* One evaluation of the component function on a props object: what it
\* returns or throws, the props object as it is left afterwards, and the
\* calls into other repository modules made on the way.
PocketCastsIcon(props) ==
    LET className == props.className
        args == <<Str(<<"fill-current">>), className>>
    IN [outcome |-> "returned",
        element |-> SvgElement(cn(args), "none"),
        propsAfter |-> props,
        calls |-> <<CnCall(args)>>]

-----------------------------------------------------------------------------
(* Repetition: Effect.repeat, repeatN, repeatOrElse and Effect.schedule      *)
(* applied to the actions of the page.  The 100 millis delay added to the    *)
(* policy only spaces the executions in time and is not modelled.            *)

Operators == { "repeat", "repeatN", "repeatOrElse", "schedule" }

\* "log" is Console.log("success"); "counter" is the Effect.async action
\* that succeeds and counts until count exceeds its threshold, then fails.
Actions == { "log", "counter" }

NoExit == [tag |-> "None", of |-> "none", n |-> 0, failure |-> ""]

\* Exit.succeed of a number: the schedule's output or the handler's result.
ExitCount(of, n) == [tag |-> "Success", of |-> of, n |-> n, failure |-> ""]

\* Exit.succeed of the action's own result (repeatN).
ExitResult == [tag |-> "Success", of |-> "action result", n |-> 0, failure |-> ""]

\* Exit.fail: cause Fail(failure).
ExitFail(e) == [tag |-> "Failure", of |-> "cause", n |-> 0, failure |-> e]

\* The counting action's test `count > 1`, with the threshold as a parameter.
ActionFails == action = "counter" /\ count > failAfter

\* As Start, but Effect.schedule too begins with an execution of the action.
StartAlwaysRuns ==
    /\ pc = "start"
    /\ pc' = "run"
    /\ UNCHANGED <<op, action, times, failAfter, count, recurrences, log,
                   handlerCalls, exit>>
    /\ UNCHANGED notRepVars

\* The program is run.  repeat, repeatN and repeatOrElse execute the action
\* once initially; Effect.schedule skips that first occurrence and consults
\* the schedule first.
Start ==
    /\ pc = "start"
    /\ pc' = IF op = "schedule" THEN "schedule" ELSE "run"
    /\ UNCHANGED <<op, action, times, failAfter, count, recurrences, log,
                   handlerCalls, exit>>
    /\ UNCHANGED notRepVars

\* As Execute, but a failed execution is handed to the schedule like a
\* successful one.
ExecuteIgnoresFailure ==
    /\ pc = "run"
    /\ IF ActionFails
       THEN /\ log' = Append(log, "failure")
            /\ pc' = "schedule"
            /\ UNCHANGED <<count, exit>>
       ELSE /\ count' = IF action = "counter" THEN count + 1 ELSE count
            /\ log' = Append(log, "success")
            /\ pc' = "schedule"
            /\ UNCHANGED exit
    /\ UNCHANGED <<op, action, times, failAfter, recurrences, handlerCalls>>
    /\ UNCHANGED notRepVars

\* One execution of the action.  A failure ends the repetition: the program
\* fails with the action's failure value, or, under repeatOrElse, the value
\* goes to the handler.  A success is handed to the schedule.
Execute ==
    /\ pc = "run"
    /\ IF ActionFails
       THEN /\ log' = Append(log, "failure")
            /\ IF op = "repeatOrElse"
               THEN pc' = "orElse" /\ UNCHANGED exit
               ELSE pc' = "done" /\ exit' = ExitFail("Uh oh!")
            /\ UNCHANGED count
       ELSE /\ count' = IF action = "counter" THEN count + 1 ELSE count
            /\ log' = Append(log, "success")
            /\ pc' = "schedule"
            /\ UNCHANGED exit
    /\ UNCHANGED <<op, action, times, failAfter, recurrences, handlerCalls>>
    /\ UNCHANGED notRepVars

\* As ScheduleStep, but the initial execution is counted as a recurrence.
ScheduleStepCountsInitial ==
    /\ pc = "schedule"
    /\ IF recurrences + (IF op = "schedule" THEN 0 ELSE 1) < times
       THEN /\ recurrences' = recurrences + 1
            /\ pc' = "run"
            /\ UNCHANGED exit
       ELSE /\ pc' = "done"
            /\ exit' = IF op = "repeatN" THEN ExitResult
                       ELSE ExitCount("schedule output", times)
            /\ UNCHANGED recurrences
    /\ UNCHANGED <<op, action, times, failAfter, count, log, handlerCalls>>
    /\ UNCHANGED notRepVars

\* The schedule recurs(n) is consulted: it grants a recurrence while fewer
\* than n were granted, otherwise the program completes with the count.
ScheduleStep ==
    /\ pc = "schedule"
    /\ IF recurrences < times
       THEN /\ recurrences' = recurrences + 1
            /\ pc' = "run"
            /\ UNCHANGED exit
       ELSE /\ pc' = "done"
            /\ exit' = IF op = "repeatN" THEN ExitResult
                       ELSE ExitCount("schedule output", recurrences)
            /\ UNCHANGED recurrences
    /\ UNCHANGED <<op, action, times, failAfter, count, log, handlerCalls>>
    /\ UNCHANGED notRepVars

\* As OrElse, but the repetition is resumed after the handler has run.
OrElseResumes ==
    /\ pc = "orElse"
    /\ handlerCalls' = Append(handlerCalls, "Uh oh!")
    /\ log' = Append(log, "orElse")
    /\ pc' = "schedule"
    /\ UNCHANGED <<op, action, times, failAfter, count, recurrences, exit>>
    /\ UNCHANGED notRepVars

\* The repeatOrElse handler: invoked with the failure value, logs "orElse"
\* and returns count - 1, which becomes the program's result.
OrElse ==
    /\ pc = "orElse"
    /\ handlerCalls' = Append(handlerCalls, "Uh oh!")
    /\ log' = Append(log, "orElse")
    /\ exit' = ExitCount("handler result", count - 1)
    /\ pc' = "done"
    /\ UNCHANGED <<op, action, times, failAfter, count, recurrences>>
    /\ UNCHANGED notRepVars

\* A program of the page: an operator, an action and a policy recurs(times).
RepetitionInit ==
    /\ op \in Operators
    /\ action \in Actions
    /\ times \in 0..MaxRecurs
    /\ failAfter \in IF action = "counter" THEN 0..MaxFailAfter ELSE {0}
    /\ count = 0
    /\ recurrences = 0
    /\ pc = "start"
    /\ log = <<>>
    /\ handlerCalls = <<>>
    /\ exit = NoExit

-----------------------------------------------------------------------------
(* The icon specification: callers render the component *)

\* As Render, but the element of the previous render is kept in a module
\* level cache and handed out again while the other props stay the same.
RenderCached ==
    /\ Len(renders) < MaxRenders
    /\ \E props \in Props :
          LET r == PocketCastsIcon(props)
              e == IF renders # <<>> /\ renders[Len(renders)].props.other = props.other
                   THEN renders[Len(renders)].element
                   ELSE r.element
          IN renders' = Append(renders,
                               [props |-> props,
                                outcome |-> r.outcome,
                                element |-> e,
                                propsAfter |-> r.propsAfter,
                                calls |-> r.calls])
    /\ UNCHANGED displayName
    /\ UNCHANGED notIconVars

\* A caller renders <PocketCastsIcon {...props} />.
Render ==
    /\ Len(renders) < MaxRenders
    /\ \E props \in Props :
          LET r == PocketCastsIcon(props)
          IN renders' = Append(renders,
                               [props |-> props,
                                outcome |-> r.outcome,
                                element |-> r.element,
                                propsAfter |-> r.propsAfter,
                                calls |-> r.calls])
    /\ UNCHANGED displayName
    /\ UNCHANGED notIconVars

IconInit ==
    /\ displayName = "PocketCastsIcon"
    /\ renders = <<>>

\* No repetition program is run.
RepIdle ==
    /\ op = "none"
    /\ action = "none"
    /\ times = 0
    /\ failAfter = 0
    /\ count = 0
    /\ recurrences = 0
    /\ pc = "idle"
    /\ log = <<>>
    /\ handlerCalls = <<>>
    /\ exit = NoExit

-----------------------------------------------------------------------------
(* Repeating based on a condition: Effect.repeat(action, { until: p }) and   *)
(* { while: p } on the page's counting action, whose k-th execution logs     *)
(* and returns k.  The predicate p is given by the set of results it holds   *)
(* for; the page's p is n === 3, the set {3}.                                *)

\* Executions after which a program that never stops is no longer followed.
MaxCalls == 4

\* As UntilStops, but the until predicate is read as a while predicate.
UntilStopsInverted(n) ==
    IF untilOption = "until" THEN n \notin untilPred ELSE n \in untilPred

\* The repetition ends after an execution with result n.
UntilStops(n) ==
    IF untilOption = "until" THEN n \in untilPred ELSE n \notin untilPred

\* One execution of the action: console.log(`Action called ${++count}
\* time(s)`) and return count.
UntilExecute ==
    /\ untilPc = "run"
    /\ untilCount < MaxCalls
    /\ untilCount' = untilCount + 1
    /\ untilLog' = Append(untilLog, untilCount + 1)
    /\ untilPc' = "check"
    /\ UNCHANGED <<untilOption, untilPred, untilExit>>
    /\ UNCHANGED notUntilVars

\* The result of the last execution is tested: the program completes with
\* it, or the action is executed again.
UntilCheck ==
    /\ untilPc = "check"
    /\ IF UntilStops(untilCount)
       THEN untilPc' = "done" /\ untilExit' = untilCount
       ELSE untilPc' = "run" /\ UNCHANGED untilExit
    /\ UNCHANGED <<untilOption, untilPred, untilCount, untilLog>>
    /\ UNCHANGED notUntilVars

\* A program Effect.repeat(action, { until: p }) or { while: p } is run.
UntilInit ==
    /\ untilOption \in {"until", "while"}
    /\ untilPred \in SUBSET (1..MaxCalls)
    /\ untilCount = 0
    /\ untilPc = "run"
    /\ untilLog = <<>>
    /\ untilExit = 0

\* No such program is run.
UntilIdle ==
    /\ untilOption = "none"
    /\ untilPred = {}
    /\ untilCount = 0
    /\ untilPc = "idle"
    /\ untilLog = <<>>
    /\ untilExit = 0

-----------------------------------------------------------------------------
(* Concurrency annotation and propertyOrder: the decode of a Tuple or a      *)
(* Struct of three members whose validation is an effect that sleeps for a   *)
(* duration and then completes ("Task i done").  Durations are counted in    *)
(* time units; the pages use 30/10/20 and 200/300/100 millis.                *)

\* The three members: the Tuple's elements 1, 2, 3, the Struct's a, b, c.
Members == 1..3

\* Longest sleep of a member, in time units.
MaxDuration == 3

\* The concurrency annotation: absent, "unbounded" or a number; limit is the
\* number of member validations that may run at the same time.
ConcurrencyAbsent == [kind |-> "absent", limit |-> 1]

ConcurrencyUnbounded == [kind |-> "unbounded", limit |-> Cardinality(Members)]

ConcurrencyNumber(n) == [kind |-> "number", limit |-> n]

Concurrencies ==
    {ConcurrencyAbsent, ConcurrencyUnbounded}
        \cup { ConcurrencyNumber(n) : n \in Members }

\* The orders in which the members can be listed.
Permutations3 ==
    { p \in [1..3 -> Members] : \A i, j \in 1..3 : i # j => p[i] # p[j] }

Running == { i \in Members : taskStatus[i] = "running" }

Pending == { i \in Members : taskStatus[i] = "pending" }

\* The completions so far, in the order of the "Task i done" lines.
RECURSIVE DoneOrderOf(_)
DoneOrderOf(es) ==
    IF es = <<>> THEN <<>>
    ELSE IF Head(es).type = "done"
         THEN <<Head(es).id>> \o DoneOrderOf(Tail(es))
         ELSE DoneOrderOf(Tail(es))

DoneOrder == DoneOrderOf(events)

\* As CanStart, but the concurrency annotation is not consulted.
CanStartUnlimited == Pending # {}

\* A further member validation may be started.
CanStart == Pending # {} /\ Cardinality(Running) < concurrency.limit

\* The next member, in schema order, starts its validation.
StartTask ==
    /\ decodePc = "decoding"
    /\ CanStart
    /\ LET i == CHOOSE k \in Pending : \A m \in Pending : k <= m
       IN /\ taskStatus' = [taskStatus EXCEPT ![i] = "running"]
          /\ remaining' = [remaining EXCEPT ![i] = durations[i]]
          /\ events' = Append(events, [type |-> "start", id |-> i])
    /\ UNCHANGED <<schemaKind, durations, concurrency, propertyOrder,
                   inputOrder, output, decodePc>>
    /\ UNCHANGED notConcVars

\* As Tick, but only the sleep of the first running member advances.
TickFirstOnly ==
    /\ decodePc = "decoding"
    /\ ~CanStart
    /\ Running # {}
    /\ \A i \in Running : remaining[i] > 0
    /\ LET f == CHOOSE k \in Running : \A m \in Running : k <= m
       IN remaining' = [remaining EXCEPT ![f] = remaining[f] - 1]
    /\ UNCHANGED <<schemaKind, durations, concurrency, propertyOrder,
                   inputOrder, taskStatus, events, output, decodePc>>
    /\ UNCHANGED notConcVars

\* One time unit passes: every running sleep advances.  Time passes only
\* when nothing can start or complete at the current instant.
Tick ==
    /\ decodePc = "decoding"
    /\ ~CanStart
    /\ Running # {}
    /\ \A i \in Running : remaining[i] > 0
    /\ remaining' = [i \in Members |->
                        IF i \in Running THEN remaining[i] - 1 ELSE remaining[i]]
    /\ UNCHANGED <<schemaKind, durations, concurrency, propertyOrder,
                   inputOrder, taskStatus, events, output, decodePc>>
    /\ UNCHANGED notConcVars

\* A member whose sleep is over completes: console.log(`Task ${id} done`).
Finish ==
    /\ decodePc = "decoding"
    /\ \E i \in Running :
          /\ remaining[i] = 0
          /\ taskStatus' = [taskStatus EXCEPT ![i] = "done"]
          /\ events' = Append(events, [type |-> "done", id |-> i])
    /\ UNCHANGED <<schemaKind, durations, concurrency, propertyOrder,
                   inputOrder, remaining, output, decodePc>>
    /\ UNCHANGED notConcVars

\* As Complete, but the keys are left in the order the members completed.
CompleteInCompletionOrder ==
    /\ decodePc = "decoding"
    /\ \A i \in Members : taskStatus[i] = "done"
    /\ output' = DoneOrder
    /\ decodePc' = "done"
    /\ UNCHANGED <<schemaKind, durations, concurrency, propertyOrder,
                   inputOrder, taskStatus, remaining, events>>
    /\ UNCHANGED notConcVars

\* Every member has completed: the decode completes with its result.  A
\* Tuple is positional; a Struct has its keys in input order with
\* propertyOrder "original", and in an order decided internally (any order)
\* with the default "none".
Complete ==
    /\ decodePc = "decoding"
    /\ \A i \in Members : taskStatus[i] = "done"
    /\ IF schemaKind = "Tuple" THEN output' = <<1, 2, 3>>
       ELSE IF propertyOrder = "original" THEN output' = inputOrder
       ELSE output' \in Permutations3
    /\ decodePc' = "done"
    /\ UNCHANGED <<schemaKind, durations, concurrency, propertyOrder,
                   inputOrder, taskStatus, remaining, events>>
    /\ UNCHANGED notConcVars

\* A decode of a three-member Tuple or Struct is started.
ConcInit ==
    /\ schemaKind \in {"Tuple", "Struct"}
    /\ durations \in [Members -> 1..MaxDuration]
    /\ concurrency \in Concurrencies
    /\ propertyOrder \in IF schemaKind = "Struct" THEN {"none", "original"} ELSE {"none"}
    /\ inputOrder \in IF schemaKind = "Struct" THEN Permutations3 ELSE {<<1, 2, 3>>}
    /\ taskStatus = [i \in Members |-> "pending"]
    /\ remaining = [i \in Members |-> 0]
    /\ events = <<>>
    /\ output = <<>>
    /\ decodePc = "decoding"

\* No such decode is run.
ConcIdle ==
    /\ schemaKind = "none"
    /\ durations = [i \in Members |-> 1]
    /\ concurrency = ConcurrencyAbsent
    /\ propertyOrder = "none"
    /\ inputOrder = <<1, 2, 3>>
    /\ taskStatus = [i \in Members |-> "pending"]
    /\ remaining = [i \in Members |-> 0]
    /\ events = <<>>
    /\ output = <<>>
    /\ decodePc = "idle"

-----------------------------------------------------------------------------
(* Redacted: make, value and unsafeWipe *)

\* Redacted instances created in one run.
MaxInstances == 2

\* Calls made in one run.
MaxRedactedCalls == 4

\* The sensitive values of the page.
Secrets == { "1234567890", "1-34567890" }

RedactedEvent(o, i, outcome, v) ==
    [op |-> o, id |-> i, outcome |-> outcome, value |-> v]

\* Redacted.make(v): a new instance that holds v.
RedactedMake ==
    /\ Len(instances) < MaxInstances
    /\ Len(redEvents) < MaxRedactedCalls
    /\ \E v \in Secrets :
          LET i == Len(instances) + 1
          IN /\ instances' = Append(instances, v)
             /\ registry' = registry \cup {<<i, v>>}
             /\ redEvents' = Append(redEvents, RedactedEvent("make", i, "returned", ""))
    /\ UNCHANGED notRedVars

\* Redacted.value(self): the value the instance holds, or the error
\* "Unable to get redacted value" when it holds none.
RedactedValue ==
    /\ Len(redEvents) < MaxRedactedCalls
    /\ \E i \in 1..Len(instances) :
          redEvents' = Append(redEvents,
              IF \E e \in registry : e[1] = i
              THEN RedactedEvent("value", i, "returned",
                                 (CHOOSE e \in registry : e[1] = i)[2])
              ELSE RedactedEvent("value", i, "threw", "Unable to get redacted value"))
    /\ UNCHANGED <<instances, registry>>
    /\ UNCHANGED notRedVars

\* As RedactedUnsafeWipe, but the instance keeps its value.
RedactedUnsafeWipeKeeps ==
    /\ Len(redEvents) < MaxRedactedCalls
    /\ \E i \in 1..Len(instances) :
          redEvents' = Append(redEvents, RedactedEvent("unsafeWipe", i, "returned", ""))
    /\ UNCHANGED <<instances, registry>>
    /\ UNCHANGED notRedVars

\* Redacted.unsafeWipe(self): erases the underlying value of the instance.
RedactedUnsafeWipe ==
    /\ Len(redEvents) < MaxRedactedCalls
    /\ \E i \in 1..Len(instances) :
          /\ registry' = { e \in registry : e[1] # i }
          /\ redEvents' = Append(redEvents, RedactedEvent("unsafeWipe", i, "returned", ""))
    /\ UNCHANGED instances
    /\ UNCHANGED notRedVars

\* No Redacted instance exists yet.
RedactedInit ==
    /\ instances = <<>>
    /\ registry = {}
    /\ redEvents = <<>>

-----------------------------------------------------------------------------
(* Decoding a schema with an asynchronous transformation: asyncSchema =      *)
(* transformOrFail(PersonId, Person, ...) decoded with decodeUnknownSync,    *)
(* decodeUnknownEither (both run the decode synchronously) and with          *)
(* decodeUnknown run by Effect.runPromise.                                   *)

\* Largest person id given as input.
MaxPersonId == 3

\* Longest delay of the transformation's decode, in time units.
MaxDelay == 2

Decoders == { "decodeUnknownSync", "decodeUnknownEither", "decodeUnknown" }

\* The unknown inputs: the numbers 1..MaxPersonId and a value that is not a
\* number.
AsyncInputs ==
    { [isNumber |-> TRUE, n |-> n] : n \in 1..MaxPersonId }
        \cup { [isNumber |-> FALSE, n |-> 0] }

NoPerson == [id |-> 0, name |-> "", age |-> 0]

\* decode: (id) => Effect.succeed({ id, name: "name", age: 18 })
PersonOf(id) == [id |-> id, name |-> "name", age |-> 18]

\* What each decoding function produces for a decoded value: the value, a
\* Right, or a successful Effect.
DecodeSucceeds(v) ==
    [shape |-> CASE decoder = "decodeUnknownSync" -> "returned"
                 [] decoder = "decodeUnknownEither" -> "Right"
                 [] OTHER -> "Success",
     value |-> v, issue |-> "None"]

\* What each decoding function produces for a parse issue: a thrown
\* ParseError, a Left, or a failed Effect.
DecodeFails(issueTag) ==
    [shape |-> CASE decoder = "decodeUnknownSync" -> "threw"
                 [] decoder = "decodeUnknownEither" -> "Left"
                 [] OTHER -> "Failure",
     value |-> NoPerson, issue |-> issueTag]

NoResult == [shape |-> "none", value |-> NoPerson, issue |-> "None"]

\* Checking: the input must match the transformation's source, PersonId.
AsyncCheck ==
    /\ asyncPc = "check"
    /\ IF asyncInput.isNumber
       THEN asyncPc' = "transform" /\ UNCHANGED asyncResult
       ELSE asyncPc' = "done" /\ asyncResult' = DecodeFails("Type")
    /\ UNCHANGED <<decoder, transformDelay, asyncInput, asyncRemaining>>
    /\ UNCHANGED notAsyncVars

\* As AsyncTransform, but the synchronous decoders wait for the async work.
AsyncTransformBlocking ==
    /\ asyncPc = "transform"
    /\ IF transformDelay = 0
       THEN asyncPc' = "done" /\ asyncResult' = DecodeSucceeds(PersonOf(asyncInput.n))
                              /\ UNCHANGED asyncRemaining
       ELSE asyncPc' = "sleeping" /\ asyncRemaining' = transformDelay
                                  /\ UNCHANGED asyncResult
    /\ UNCHANGED <<decoder, transformDelay, asyncInput>>
    /\ UNCHANGED notAsyncVars

\* Decoding: the transformation's decode is run.  A decode without delay
\* yields the person at once.  A delayed decode suspends; the synchronous
\* decoders cannot wait for it and produce a Forbidden issue ("cannot be
\* resolved synchronously"), decodeUnknown goes to sleep.
AsyncTransform ==
    /\ asyncPc = "transform"
    /\ IF transformDelay = 0
       THEN asyncPc' = "done" /\ asyncResult' = DecodeSucceeds(PersonOf(asyncInput.n))
                              /\ UNCHANGED asyncRemaining
       ELSE IF decoder \in {"decodeUnknownSync", "decodeUnknownEither"}
            THEN asyncPc' = "done" /\ asyncResult' = DecodeFails("Forbidden")
                                   /\ UNCHANGED asyncRemaining
            ELSE asyncPc' = "sleeping" /\ asyncRemaining' = transformDelay
                                       /\ UNCHANGED asyncResult
    /\ UNCHANGED <<decoder, transformDelay, asyncInput>>
    /\ UNCHANGED notAsyncVars

\* One time unit of the delay passes.
AsyncTick ==
    /\ asyncPc = "sleeping"
    /\ asyncRemaining > 0
    /\ asyncRemaining' = asyncRemaining - 1
    /\ UNCHANGED <<decoder, transformDelay, asyncInput, asyncPc, asyncResult>>
    /\ UNCHANGED notAsyncVars

\* The delay is over: the decode completes with the person.
AsyncResume ==
    /\ asyncPc = "sleeping"
    /\ asyncRemaining = 0
    /\ asyncPc' = "done"
    /\ asyncResult' = DecodeSucceeds(PersonOf(asyncInput.n))
    /\ UNCHANGED <<decoder, transformDelay, asyncInput, asyncRemaining>>
    /\ UNCHANGED notAsyncVars

\* A decoding function is applied to asyncSchema and an input.
AsyncInit ==
    /\ decoder \in Decoders
    /\ transformDelay \in 0..MaxDelay
    /\ asyncInput \in AsyncInputs
    /\ asyncPc = "check"
    /\ asyncRemaining = 0
    /\ asyncResult = NoResult

\* No such decode is run.
AsyncIdle ==
    /\ decoder = "none"
    /\ transformDelay = 0
    /\ asyncInput = [isNumber |-> FALSE, n |-> 0]
    /\ asyncPc = "idle"
    /\ asyncRemaining = 0
    /\ asyncResult = NoResult

-----------------------------------------------------------------------------
(* Decoding structs with parse options, and formatting the errors.           *)
(*                                                                           *)
(* A value is null, a string, a number or an object (its properties in key   *)
(* order); json is the text the error messages print for it.  A text that    *)
(* is put together from parts is the sequence of its parts.                  *)

VNull == [t |-> "null", json |-> "null", props |-> <<>>]

VStr(json) == [t |-> "string", json |-> json, props |-> <<>>]

VNum(json) == [t |-> "number", json |-> json, props |-> <<>>]

VObj(props) == [t |-> "object", json |-> "{...}", props |-> props]

Prop(k, v) == [key |-> k, value |-> v]

HasKey(v, k) == \E i \in 1..Len(v.props) : v.props[i].key = k

Get(v, k) == v.props[CHOOSE i \in 1..Len(v.props) : v.props[i].key = k].value

\* The annotations of a schema; "" stands for an annotation that is not set.
\* parseErrors is the errors setting of the parseOptions annotation.
Annotations(message, parseIssueTitle, identifier, title, description, parseErrors) ==
    [message |-> message, parseIssueTitle |-> parseIssueTitle,
     identifier |-> identifier, title |-> title, description |-> description,
     parseErrors |-> parseErrors]

NoAnnotations == Annotations("", "", "", "", "", "")

\* Schema.String, Schema.Number and Schema.Struct; syntax is the default
\* TypeScript-like rendering of the schema.
SString == [kind |-> "String", syntax |-> "string", fields |-> <<>>, ann |-> NoAnnotations]

SNumber == [kind |-> "Number", syntax |-> "number", fields |-> <<>>, ann |-> NoAnnotations]

SStruct(syntax, fields, ann) ==
    [kind |-> "Struct", syntax |-> syntax, fields |-> fields, ann |-> ann]

Field(k, schema) == [key |-> k, schema |-> schema]

FieldKeys(schema) == { schema.fields[i].key : i \in 1..Len(schema.fields) }

\* A parse issue: Type (the value does not match the schema), Missing and
\* Unexpected (a key of a struct), or Composite (a struct with the issues of
\* its keys, children being pairs of key and issue).
Issue(tag, ast, actual, children) ==
    [tag |-> tag, ast |-> ast, actual |-> actual, children |-> children]

NoIssue == Issue("None", SString, VNull, <<>>)

Pointer(k, issue) == [key |-> k, issue |-> issue]

ParseOk(v) == [ok |-> TRUE, value |-> v, issue |-> NoIssue]

ParseFail(issue) == [ok |-> FALSE, value |-> VNull, issue |-> issue]

\* As EffectiveOptions, but the options of the caller win over the schema's
\* parseOptions annotation.
EffectiveOptionsCallerWins(ann, opts) == opts

\* The options a schema is parsed with: its parseOptions annotation
\* overrides the options handed down by its parent or the caller.
EffectiveOptions(ann, opts) ==
    IF ann.parseErrors # "" THEN [opts EXCEPT !.errors = ann.parseErrors] ELSE opts

\* As Reported, but decoding stops at the first issue whatever the option.
ReportedFirstOnly(all, opts) == SubSeq(all, 1, 1)

\* The issues of a struct that are reported: all of them with errors "all",
\* only the first one with errors "first".
Reported(all, opts) ==
    IF opts.errors = "all" THEN all ELSE SubSeq(all, 1, 1)

\* As ExcessProps, but excess properties are stripped in every mode.
ExcessPropsStripped(schema, v, opts) == <<>>

\* The properties of the input the schema does not name, in input order,
\* unless they are ignored.
ExcessProps(schema, v, opts) ==
    IF opts.onExcessProperty = "ignore" THEN <<>>
    ELSE SelectSeq(v.props, LAMBDA pr : pr.key \notin FieldKeys(schema))

RECURSIVE Decode(_, _, _)
\* Schema.decodeUnknown*(schema)(v, opts).
Decode(schema, v, opts) ==
    IF schema.kind = "String"
    THEN IF v.t = "string" THEN ParseOk(v) ELSE ParseFail(Issue("Type", schema, v, <<>>))
    ELSE IF schema.kind = "Number"
    THEN IF v.t = "number" THEN ParseOk(v) ELSE ParseFail(Issue("Type", schema, v, <<>>))
    ELSE IF v.t # "object"
    THEN ParseFail(Issue("Type", schema, v, <<>>))
    ELSE
      LET o == EffectiveOptions(schema.ann, opts)
          n == Len(schema.fields)
          key(i) == schema.fields[i].key
          result == [i \in 1..n |->
                        IF HasKey(v, key(i))
                        THEN Decode(schema.fields[i].schema, Get(v, key(i)), o)
                        ELSE ParseFail(Issue("Missing", schema, VNull, <<>>))]
          pointers == [i \in 1..n |-> Pointer(key(i), result[i].issue)]
          missing == SelectSeq(pointers, LAMBDA pt : pt.issue.tag = "Missing")
          invalid == SelectSeq(pointers, LAMBDA pt : pt.issue.tag \notin {"Missing", "None"})
          excess == ExcessProps(schema, v, o)
          unexpected ==
              IF o.onExcessProperty = "error"
              THEN [i \in 1..Len(excess) |->
                       Pointer(excess[i].key,
                               Issue("Unexpected", schema, excess[i].value, <<>>))]
              ELSE <<>>
          all == IF missingFirst
                 THEN missing \o unexpected \o invalid
                 ELSE unexpected \o missing \o invalid
      IN IF all # <<>>
         THEN ParseFail(Issue("Composite", schema, v, Reported(all, o)))
         ELSE ParseOk(VObj(excess \o [i \in 1..n |-> Prop(key(i), result[i].value)]))

\* The parseIssueTitle annotation getOrderId: a title when the actual value
\* is an object with a number id, undefined (the empty text) otherwise.
ParseIssueTitleOf(ann, actual) ==
    IF /\ ann.parseIssueTitle = "getOrderId"
       /\ actual.t = "object"
       /\ HasKey(actual, "id")
       /\ Get(actual, "id").t = "number"
    THEN <<"Order with id: ", Get(actual, "id").json>>
    ELSE <<>>

\* As TreeTitle, but the title annotation is preferred to the identifier.
TreeTitleTitleFirst(ast, actual) ==
    IF ast.ann.message # "" THEN <<ast.ann.message>>
    ELSE IF ParseIssueTitleOf(ast.ann, actual) # <<>> THEN ParseIssueTitleOf(ast.ann, actual)
    ELSE IF ast.ann.title # "" THEN <<ast.ann.title>>
    ELSE IF ast.ann.identifier # "" THEN <<ast.ann.identifier>>
    ELSE IF ast.ann.description # "" THEN <<ast.ann.description>>
    ELSE <<ast.syntax>>

\* The title TreeFormatter gives a failing schema.
TreeTitle(ast, actual) ==
    IF ast.ann.message # "" THEN <<ast.ann.message>>
    ELSE IF ParseIssueTitleOf(ast.ann, actual) # <<>> THEN ParseIssueTitleOf(ast.ann, actual)
    ELSE IF ast.ann.identifier # "" THEN <<ast.ann.identifier>>
    ELSE IF ast.ann.title # "" THEN <<ast.ann.title>>
    ELSE IF ast.ann.description # "" THEN <<ast.ann.description>>
    ELSE <<ast.syntax>>

\* The message of an issue that is not a Composite.
LeafMessage(issue) ==
    CASE issue.tag = "Missing" -> <<"is missing">>
      [] issue.tag = "Unexpected" -> <<"is unexpected, expected: ", issue.ast.syntax>>
      [] OTHER ->
            IF issue.ast.ann.message # "" THEN <<issue.ast.ann.message>>
            ELSE <<"Expected ">> \o TreeTitle(issue.ast, issue.actual)
                     \o <<", actual ", issue.actual.json>>

RECURSIVE TreeLines(_, _)
RECURSIVE TreeChildren(_, _)
\* TreeFormatter: the lines of the tree with their depth, top down.
TreeLines(issue, depth) ==
    IF issue.tag = "Composite"
    THEN <<[depth |-> depth, text |-> TreeTitle(issue.ast, issue.actual)]>>
             \o TreeChildren(issue.children, depth + 1)
    ELSE <<[depth |-> depth, text |-> LeafMessage(issue)]>>

TreeChildren(pointers, depth) ==
    IF pointers = <<>> THEN <<>>
    ELSE <<[depth |-> depth, text |-> <<"[", Head(pointers).key, "]">>]>>
             \o TreeLines(Head(pointers).issue, depth + 1)
             \o TreeChildren(Tail(pointers), depth)

RECURSIVE ArrayEntries(_, _)
RECURSIVE ArrayChildren(_, _)
\* ArrayFormatter: one entry with _tag, path and message per issue.
ArrayEntries(issue, path) ==
    IF issue.tag = "Composite"
    THEN ArrayChildren(issue.children, path)
    ELSE <<[_tag |-> issue.tag, path |-> path, message |-> LeafMessage(issue)]>>

ArrayChildren(pointers, path) ==
    IF pointers = <<>> THEN <<>>
    ELSE ArrayEntries(Head(pointers).issue, Append(path, Head(pointers).key))
             \o ArrayChildren(Tail(pointers), path)

-----------------------------------------------------------------------------
(* The schemas and inputs of the pages *)

\* Person of the getting started and error formatter pages.
Person ==
    SStruct("{ readonly name: string; readonly age: number }",
            <<Field("name", SString), Field("age", SNumber)>>, NoAnnotations)

\* The schema of "Customizing Parsing Behavior at the Schema Level", with
\* the errors setting of the two parseOptions annotations as parameters.
Layered(rootErrors, innerErrors) ==
    SStruct("{ readonly a: { readonly b: string; readonly c: string }; readonly d: string }",
            <<Field("a", SStruct("{ readonly b: string; readonly c: string }",
                                 <<Field("b", SString), Field("c", SString)>>,
                                 Annotations("", "", "", "first error only", "", innerErrors))),
              Field("d", SString)>>,
            Annotations("", "", "", "all errors", "", rootErrors))

\* Order of the ParseIssueTitle example, without its items, with each of its
\* annotations set or not.
Order(ann) ==
    SStruct("{ readonly id: number; readonly name: string }",
            <<Field("id", SNumber), Field("name", SString)>>, ann)

ErrorsSettings == { "first", "all" }

OrderAnnotations ==
    { Annotations(m, p, i, t, d, "") :
        m \in {"", "Invalid order"}, p \in {"", "getOrderId"}, i \in {"", "Order"},
        t \in {"", "Order title"}, d \in {"", "An order"} }

\* An object from the listed properties, leaving out those marked absent.
Absent == [t |-> "absent", json |-> "", props |-> <<>>]

ObjOf(props) == VObj(SelectSeq(props, LAMBDA pr : pr.value # Absent))

PersonInputs ==
    { VNull }
      \cup { ObjOf(<<Prop("name", nm), Prop("age", ag), Prop("email", em), Prop("phone", ph)>>) :
               nm \in {Absent, VStr("\"Bob\""), VNum("1")},
               ag \in {Absent, VNum("40"), VStr("\"abc\"")},
               em \in {Absent, VStr("\"bob@example.com\"")},
               ph \in {Absent, VStr("\"555\"")} }

LayeredInputs ==
    { ObjOf(<<Prop("a", a), Prop("d", d)>>) :
        a \in { Absent } \cup
              { ObjOf(<<Prop("b", b), Prop("c", c)>>) :
                  b \in {Absent, VStr("\"x\"")}, c \in {Absent, VStr("\"y\"")} },
        d \in {Absent, VStr("\"z\"")} }

OrderInputs ==
    { VNull, VObj(<<>>), VObj(<<Prop("id", VNum("1"))>>),
      VObj(<<Prop("id", VNum("1")), Prop("name", VStr("\"n\""))>>) }

\* The programs: a schema and an input for it.
ParsePrograms ==
    ({Person} \X PersonInputs)
      \cup ({ Layered(r, i) : r \in {"", "first", "all"}, i \in {"", "first", "all"} }
               \X LayeredInputs)
      \cup ({ Order(ann) : ann \in OrderAnnotations } \X OrderInputs)

\* decodeUnknownEither(schema, options)(input)
ParseDecode ==
    /\ parsePc = "call"
    /\ parseResult' = Decode(parseSchema, parseInput, parseOptions)
    /\ parsePc' = "decoded"
    /\ UNCHANGED <<parseSchema, parseInput, parseOptions, missingFirst,
                   treeOutput, arrayOutput>>
    /\ UNCHANGED notParseVars

\* TreeFormatter.formatErrorSync(result.left)
FormatTree ==
    /\ parsePc = "decoded"
    /\ ~parseResult.ok
    /\ treeOutput = <<>>
    /\ treeOutput' = TreeLines(parseResult.issue, 0)
    /\ UNCHANGED <<parseSchema, parseInput, parseOptions, missingFirst,
                   parsePc, parseResult, arrayOutput>>
    /\ UNCHANGED notParseVars

\* ArrayFormatter.formatErrorSync(result.left)
FormatArray ==
    /\ parsePc = "decoded"
    /\ ~parseResult.ok
    /\ arrayOutput = <<>>
    /\ arrayOutput' = ArrayEntries(parseResult.issue, <<>>)
    /\ UNCHANGED <<parseSchema, parseInput, parseOptions, missingFirst,
                   parsePc, parseResult, treeOutput>>
    /\ UNCHANGED notParseVars

\* A schema, an input and the parse options of the call.  The pages do not
\* say whether a missing key or an excess key is reported first; both
\* orders are followed.
ParseInit ==
    /\ \E pg \in ParsePrograms : parseSchema = pg[1] /\ parseInput = pg[2]
    /\ parseOptions \in [errors : ErrorsSettings,
                         onExcessProperty : {"ignore", "error", "preserve"}]
    /\ missingFirst \in BOOLEAN
    /\ parsePc = "call"
    /\ parseResult = ParseOk(VNull)
    /\ treeOutput = <<>>
    /\ arrayOutput = <<>>

\* No decode is run.
ParseIdle ==
    /\ parseSchema = SString
    /\ parseInput = VNull
    /\ parseOptions = [errors |-> "first", onExcessProperty |-> "ignore"]
    /\ missingFirst = TRUE
    /\ parsePc = "idle"
    /\ parseResult = ParseOk(VNull)
    /\ treeOutput = <<>>
    /\ arrayOutput = <<>>

-----------------------------------------------------------------------------
(* Custom error messages: the message annotation on a chain of refinements  *)
(* of Schema.String, MyString of the "Custom Error Messages" page.           *)

\* The longest string passed to decode.
MaxInputLen == 3

\* The unknown inputs: null and strings, a string being its characters.
NullValue == [t |-> "null", chars |-> <<>>]

StringOf(chars) == [t |-> "string", chars |-> chars]

\* The rendering of a value in a default message.
Json(v) == IF v.t = "null" THEN <<"null">> ELSE <<"\"">> \o v.chars \o <<"\"">>

\* What a message annotation returns: a string, or a message with the
\* override flag; the empty text stands for no message annotation.
NoMessage == [text |-> "", override |-> FALSE]

Message(text) == [text |-> text, override |-> FALSE]

MessageOverride(text) == [text |-> text, override |-> TRUE]

\* Schema.String.annotations({ message })
StringSchema(message) ==
    [kind |-> "String", title |-> <<"string">>, message |-> message]

\* from.pipe(Schema.minLength(n, { message }))
minLength(n, from, message) ==
    [kind |-> "Refinement", filter |-> "minLength", n |-> n, from |-> from,
     title |-> <<"a string at least ", ToString(n), " character(s) long">>,
     message |-> message]

\* from.pipe(Schema.maxLength(n, { message }))
maxLength(n, from, message) ==
    [kind |-> "Refinement", filter |-> "maxLength", n |-> n, from |-> from,
     title |-> <<"a string at most ", ToString(n), " character(s) long">>,
     message |-> message]

\* MyString with the message annotations of String, minLength and maxLength.
MyString(ms) == maxLength(2, minLength(1, StringSchema(ms[1]), ms[2]), ms[3])

\* The predicate of a refinement.
Holds(schema, v) ==
    IF schema.filter = "minLength" THEN Len(v.chars) >= schema.n
    ELSE Len(v.chars) <= schema.n

\* A Type issue, and a Refinement issue with its kind (From, Predicate) and
\* the issue it wraps.
TypeIssue(ast, actual) ==
    [tag |-> "Type", ast |-> ast, actual |-> actual, kind |-> "", issue |-> <<>>]

RefinementIssue(ast, actual, kind, issue) ==
    [tag |-> "Refinement", ast |-> ast, actual |-> actual, kind |-> kind,
     issue |-> <<issue>>]

Succeeded(v) == [ok |-> TRUE, value |-> v, issue |-> <<>>]

FailedWith(issue) == [ok |-> FALSE, value |-> NullValue, issue |-> <<issue>>]

RECURSIVE DecodeRefinement(_, _)
\* Decoding against a chain of refinements: the from side first, then the
\* predicate of the refinement itself.
DecodeRefinement(schema, v) ==
    IF schema.kind = "String"
    THEN IF v.t = "string" THEN Succeeded(v) ELSE FailedWith(TypeIssue(schema, v))
    ELSE LET from == DecodeRefinement(schema.from, v)
         IN IF ~from.ok
            THEN FailedWith(RefinementIssue(schema, v, "From", from.issue[1]))
            ELSE IF Holds(schema, v) THEN Succeeded(v)
            ELSE FailedWith(RefinementIssue(schema, v, "Predicate",
                                            TypeIssue(schema, v)))

\* As getMessage, but the message of the outermost annotated schema is used
\* whichever schema failed.
getMessageOutermost(issue) ==
    IF issue.ast.message.text = "" THEN <<>> ELSE <<issue.ast.message.text>>

RECURSIVE getMessageIgnoresOverride(_)
\* As getMessage, but the override flag is not looked at.
getMessageIgnoresOverride(issue) ==
    LET current == issue.ast.message
    IN IF current.text = "" THEN <<>>
       ELSE IF issue.tag = "Refinement" /\ issue.kind = "From"
       THEN getMessageIgnoresOverride(issue.issue[1])
       ELSE <<current.text>>

RECURSIVE getMessage(_)
\* The custom message of an issue, <<>> when the default message applies:
\* the message of the schema the issue belongs to, unless the failure came
\* from its from side and the message does not override; then the message
\* of the inner issue decides.
getMessage(issue) ==
    LET current == issue.ast.message
    IN IF current.text = "" THEN <<>>
       ELSE IF ~current.override /\ issue.tag = "Refinement" /\ issue.kind = "From"
       THEN getMessage(issue.issue[1])
       ELSE <<current.text>>

Line(depth, text) == [depth |-> depth, text |-> text]

RECURSIVE MessageLines(_, _)
\* e.message of the ParseError thrown: the custom message where one
\* applies, the default tree otherwise.
MessageLines(issue, depth) ==
    IF getMessage(issue) # <<>> THEN <<Line(depth, getMessage(issue))>>
    ELSE IF issue.tag = "Type"
    THEN <<Line(depth, <<"Expected ">> \o issue.ast.title \o <<", actual ">>
                           \o Json(issue.actual))>>
    ELSE <<Line(depth, issue.ast.title),
           Line(depth + 1, IF issue.kind = "From"
                           THEN <<"From side refinement failure">>
                           ELSE <<"Predicate refinement failure">>)>>
             \o MessageLines(issue.issue[1], depth + 2)

\* The message annotation each of the three schemas of the chain may carry.
MessageChoices ==
    [n \in 1..3 |->
        LET text == <<"String custom message", "minLength custom message",
                      "maxLength custom message">>[n]
        IN { NoMessage, Message(text), MessageOverride(text) }]

RECURSIVE Repeated(_, _)
Repeated(c, n) == IF n = 0 THEN <<>> ELSE <<c>> \o Repeated(c, n - 1)

MessageInputs == { NullValue } \cup { StringOf(Repeated("a", n)) : n \in 0..MaxInputLen }

\* decode(input), up to the point where it returns or is about to throw
MessageDecode ==
    /\ msgPc = "call"
    /\ msgResult' = DecodeRefinement(MyString(messages), msgInput)
    /\ msgPc' = IF msgResult'.ok THEN "returned" ELSE "failed"
    /\ UNCHANGED <<messages, msgInput, msgThrown>>
    /\ UNCHANGED notMsgVars

\* throw new ParseError(issue); catch (e) { console.log(e.message) }
MessageThrow ==
    /\ msgPc = "failed"
    /\ msgThrown' = MessageLines(msgResult.issue[1], 0)
    /\ msgPc' = "thrown"
    /\ UNCHANGED <<messages, msgInput, msgResult>>
    /\ UNCHANGED notMsgVars

MessageInit ==
    /\ messages \in { <<a, b, c>> : a \in MessageChoices[1], b \in MessageChoices[2],
                                   c \in MessageChoices[3] }
    /\ msgInput \in MessageInputs
    /\ msgPc = "call"
    /\ msgResult = Succeeded(NullValue)
    /\ msgThrown = <<>>

\* No MyString is decoded.
MessageIdle ==
    /\ messages = <<NoMessage, NoMessage, NoMessage>>
    /\ msgInput = NullValue
    /\ msgPc = "idle"
    /\ msgResult = Succeeded(NullValue)
    /\ msgThrown = <<>>

-----------------------------------------------------------------------------
(* The decodingFallback annotation on Schema.String, run with a decoding    *)
(* function that waits for the fallback's effect.                            *)

\* The longest sleep of a fallback, in time units.
MaxSleep == 2

\* A decodingFallback annotation: what its effect produces (a value on the
\* right, or a failure), whether it logs issue._tag first and how long it
\* sleeps; set is FALSE for a schema without the annotation.
Fallback(produces, value, logs, sleep) ==
    [set |-> TRUE, produces |-> produces, value |-> value, logs |-> logs,
     sleep |-> sleep]

NoFallback ==
    [set |-> FALSE, produces |-> "right", value |-> VNull, logs |-> FALSE,
     sleep |-> 0]

\* decodingFallback: () => Either.right("<fallback>")
BasicFallback == Fallback("right", VStr("<fallback>"), FALSE, 0)

Fallbacks ==
    { NoFallback }
      \cup { Fallback(p, v, l, s) :
               p \in {"right", "left"}, v \in {VStr("<fallback>"), VStr("<fallback2>")},
               l \in BOOLEAN, s \in 0..MaxSleep }

FallbackInputs == { VNull, VNum("1"), VStr("valid input"), VStr("") }

\* What the effect of the fallback completes with, given the issue.
Produced(fallback, issue) ==
    IF fallback.produces = "right" THEN ParseOk(fallback.value)
    ELSE ParseFail(Issue("Forbidden", issue.ast, issue.actual, <<>>))

\* The results the page gives for a decode that has run the fallback: what
\* the fallback produced and, for decodeUnknownSync(schema)(null) of the
\* basic example, the output the page records for it.
FallbackResults(fallback, input, produced) ==
    { produced }
      \cup (IF fallback = BasicFallback /\ input = VNull
            THEN { ParseOk(VStr("<fallback value>")) }
            ELSE {})

\* Schema.decodeUnknown(schema)(input): the input is checked against
\* Schema.String; only a failure of a schema with the annotation goes on to
\* the fallback.
FallbackDecode ==
    /\ fbPc = "call"
    /\ LET r == Decode(SString, fbInput, [errors |-> "first", onExcessProperty |-> "ignore"])
       IN IF r.ok \/ ~fbFallback.set
          THEN /\ fbResult' = r
               /\ fbPc' = "done"
               /\ UNCHANGED fbIssue
          ELSE /\ fbIssue' = r.issue
               /\ fbPc' = "fallback"
               /\ UNCHANGED fbResult
    /\ UNCHANGED <<fbFallback, fbInput, fbCalls, fbLog, fbRemaining, fbProduced>>
    /\ UNCHANGED notFbVars

\* The fallback is called with the issue; it logs and starts its sleep.
FallbackInvoke ==
    /\ fbPc = "fallback"
    /\ fbCalls' = Append(fbCalls, fbIssue)
    /\ fbLog' = IF fbFallback.logs THEN Append(fbLog, fbIssue.tag) ELSE fbLog
    /\ fbRemaining' = fbFallback.sleep
    /\ fbPc' = "running"
    /\ UNCHANGED <<fbFallback, fbInput, fbIssue, fbProduced, fbResult>>
    /\ UNCHANGED notFbVars

\* Time passes while the fallback sleeps.
FallbackTick ==
    /\ fbPc = "running"
    /\ fbRemaining > 0
    /\ fbRemaining' = fbRemaining - 1
    /\ UNCHANGED <<fbFallback, fbInput, fbPc, fbIssue, fbCalls, fbLog, fbProduced,
                   fbResult>>
    /\ UNCHANGED notFbVars

\* The fallback's effect completes and the decode with it.
FallbackSettle ==
    /\ fbPc = "running"
    /\ fbRemaining = 0
    /\ fbProduced' = Produced(fbFallback, fbIssue)
    /\ fbResult' \in FallbackResults(fbFallback, fbInput, fbProduced')
    /\ fbPc' = "done"
    /\ UNCHANGED <<fbFallback, fbInput, fbIssue, fbCalls, fbLog, fbRemaining>>
    /\ UNCHANGED notFbVars

FallbackInit ==
    /\ fbFallback \in Fallbacks
    /\ fbInput \in FallbackInputs
    /\ fbPc = "call"
    /\ fbIssue = NoIssue
    /\ fbCalls = <<>>
    /\ fbLog = <<>>
    /\ fbRemaining = 0
    /\ fbProduced = ParseOk(VNull)
    /\ fbResult = ParseOk(VNull)

\* No schema with a fallback is decoded.
FallbackIdle ==
    /\ fbFallback = NoFallback
    /\ fbInput = VNull
    /\ fbPc = "idle"
    /\ fbIssue = NoIssue
    /\ fbCalls = <<>>
    /\ fbLog = <<>>
    /\ fbRemaining = 0
    /\ fbProduced = ParseOk(VNull)
    /\ fbResult = ParseOk(VNull)

-----------------------------------------------------------------------------
(* Schema.OptionFromNonEmptyTrimmedString: a string is the sequence of its  *)
(* characters, " " being the whitespace character.                           *)

\* The longest string encoded or decoded.
MaxStringLen == 3

Chars == { " ", "a", "b" }

Strings == UNION { [1..n -> Chars] : n \in 0..MaxStringLen }

\* Option.none() and Option.some(s)
None == [_tag |-> "None", value |-> <<>>]

Some(s) == [_tag |-> "Some", value |-> s]

Options == { None } \cup { Some(s) : s \in Strings }

RECURSIVE TrimStart(_)
TrimStart(s) ==
    IF s # <<>> /\ Head(s) = " " THEN TrimStart(Tail(s)) ELSE s

RECURSIVE TrimEnd(_)
TrimEnd(s) ==
    IF s # <<>> /\ s[Len(s)] = " " THEN TrimEnd(SubSeq(s, 1, Len(s) - 1)) ELSE s

\* s.trim()
Trim(s) == TrimEnd(TrimStart(s))

\* As DecodeOption, but a string counts as empty up to one character.
DecodeOptionOffByOne(s) ==
    IF Len(Trim(s)) > 1
    THEN Some(IF optTrims THEN Trim(s) ELSE s)
    ELSE None

\* Decoding: Option.some when s.trim().length > 0, Option.none() otherwise.
\* The page's table puts s into the Option and its example the trimmed s;
\* optTrims says which.
DecodeOption(s) ==
    IF Len(Trim(s)) > 0
    THEN Some(IF optTrims THEN Trim(s) ELSE s)
    ELSE None

\* Encoding: Option.none() becomes "", Option.some(s) becomes s.
EncodeOption(o) == IF o._tag = "None" THEN <<>> ELSE o.value

\* Schema.encodeSync(Schema.OptionFromNonEmptyTrimmedString)(optValue)
OptionEncode ==
    /\ optPc = "encode"
    /\ optEncoded' = EncodeOption(optValue)
    /\ optPc' = "decode"
    /\ UNCHANGED <<optStart, optTrims, optValue, optDecoded>>
    /\ UNCHANGED notOptVars

\* Schema.decodeSync(Schema.OptionFromNonEmptyTrimmedString)(optEncoded)
OptionDecode ==
    /\ optPc = "decode"
    /\ optDecoded' = DecodeOption(optEncoded)
    /\ optPc' = "done"
    /\ UNCHANGED <<optStart, optTrims, optValue, optEncoded>>
    /\ UNCHANGED notOptVars

\* Either an Option to encode and decode again, or a string to decode.
OptionInit ==
    /\ optTrims \in BOOLEAN
    /\ optStart \in {"encode", "decode"}
    /\ optPc = optStart
    /\ IF optStart = "encode"
       THEN optValue \in Options /\ optEncoded = <<>>
       ELSE optValue = None /\ optEncoded \in Strings
    /\ optDecoded = None

\* The codec is not used.
OptionIdle ==
    /\ optTrims = TRUE
    /\ optStart = "idle"
    /\ optPc = "idle"
    /\ optValue = None
    /\ optEncoded = <<>>
    /\ optDecoded = None

-----------------------------------------------------------------------------
(* SafeDecode(self) of "Handling Unsupported Encoding": a transformation    *)
(* from Schema.Unknown to an Either of the original input and the decoded   *)
(* value, for self one of Schema.String, Schema.Number and Person.          *)

\* Either.left and Either.right
Left(v) == [_tag |-> "Left", value |-> v]

Right(v) == [_tag |-> "Right", value |-> v]

\* Either.mapLeft(e, f), f being a function on the left values
mapLeft(e, f) == IF e._tag = "Left" THEN Left(f[e.value]) ELSE e

DefaultOptions == [errors |-> "first", onExcessProperty |-> "ignore"]

\* Schema.decodeUnknownEither(self)(input)
decodeUnknownEither(self, input) ==
    LET r == Decode(self, input, DefaultOptions)
    IN IF r.ok THEN Right(r.value) ELSE Left(r.issue)

\* The transformation SafeDecode(self) returns, as the ast of its issues.
SafeDecodeAst(self) ==
    [kind |-> "Transformation", from |-> "Unknown", to |-> "EitherFromSelf",
     left |-> "Unknown", right |-> self]

\* new ParseResult.Forbidden(ast, actual, message)
Forbidden(ast, actual, message) ==
    [tag |-> "Forbidden", ast |-> ast, actual |-> actual, children |-> <<>>,
     message |-> message]

\* Whether a value is an Either of Schema.EitherFromSelf({ left: Unknown,
\* right: typeSchema(self) }); the schemas used for self have no
\* transformation, so typeSchema(self) accepts what self accepts.
IsEitherFromSelf(self, e) ==
    e._tag = "Left" \/ Decode(self, e.value, DefaultOptions).ok

\* As SafeDecodeDecode, but the Left of decodeUnknownEither is passed on as
\* it is.
SafeDecodeDecodeKeepsIssue(self, input) ==
    LET out == decodeUnknownEither(self, input)
    IN IF IsEitherFromSelf(self, out) THEN ParseOk(out)
       ELSE ParseFail(Issue("Transformation", SafeDecodeAst(self), input, <<>>))

\* Decoding with SafeDecode(self): the decode function of the
\* transformation, whose result is then checked against the Either schema.
SafeDecodeDecode(self, input) ==
    LET either == decodeUnknownEither(self, input)
        out == mapLeft(either, [issue \in {either.value} |-> input])
    IN IF IsEitherFromSelf(self, out) THEN ParseOk(out)
       ELSE ParseFail(Issue("Transformation", SafeDecodeAst(self), input, <<>>))

\* Encoding with SafeDecode(self): the Either is checked against the Either
\* schema, then the encode function of the transformation is applied.
SafeDecodeEncode(self, actual) ==
    IF ~IsEitherFromSelf(self, actual)
    THEN ParseFail(Issue("Transformation", SafeDecodeAst(self), actual, <<>>))
    ELSE IF actual._tag = "Left"
    THEN ParseFail(Forbidden(SafeDecodeAst(self), actual, "cannot encode a Left"))
    ELSE ParseOk(actual.value)

SafeSelves == { SString, SNumber, Person }

SafeInputs == { VStr("\"a\""), VNum("1") } \cup PersonInputs

\* The values of the type Either<A, unknown> for the A of self.
SafeEithers(self) ==
    { Left(v) : v \in SafeInputs }
      \cup { Right(v) : v \in { w \in SafeInputs : Decode(self, w, DefaultOptions).ok
                                                   /\ Decode(self, w, DefaultOptions).value = w } }

\* Schema.decodeUnknownEither(SafeDecode(self))(input)
DecodeSafely ==
    /\ safePc = "decode"
    /\ safeDecoded' = SafeDecodeDecode(safeSelf, safeInput)
    /\ safeActual' = IF safeDecoded'.ok THEN safeDecoded'.value ELSE safeActual
    /\ safePc' = IF safeDecoded'.ok THEN "encode" ELSE "failed"
    /\ UNCHANGED <<safeSelf, safeStart, safeInput, safeEncoded>>
    /\ UNCHANGED notSafeVars

\* Schema.encodeEither(SafeDecode(self))(actual)
EncodeEither ==
    /\ safePc = "encode"
    /\ safeEncoded' = SafeDecodeEncode(safeSelf, safeActual)
    /\ safePc' = "done"
    /\ UNCHANGED <<safeSelf, safeStart, safeInput, safeDecoded, safeActual>>
    /\ UNCHANGED notSafeVars

\* Either an input to decode, the Either decoded being encoded afterwards,
\* or an Either to encode.
SafeDecodeInit ==
    /\ safeSelf \in SafeSelves
    /\ safeStart \in {"decode", "encode"}
    /\ safePc = safeStart
    /\ IF safeStart = "decode"
       THEN safeInput \in SafeInputs /\ safeActual = Left(VNull)
       ELSE safeInput = VNull /\ safeActual \in SafeEithers(safeSelf)
    /\ safeDecoded = ParseOk(VNull)
    /\ safeEncoded = ParseOk(VNull)

\* SafeDecode is not used.
SafeDecodeIdle ==
    /\ safeSelf = SString
    /\ safeStart = "idle"
    /\ safePc = "idle"
    /\ safeInput = VNull
    /\ safeActual = Left(VNull)
    /\ safeDecoded = ParseOk(VNull)
    /\ safeEncoded = ParseOk(VNull)

-----------------------------------------------------------------------------
(* The calls of Schema.decodeUnknownSync on the struct of name and age that *)
(* the getting started page (part_000) and the error messages page          *)
(* (part_001) document, with the output each page records.                  *)

Pages == { "part_000", "part_001" }

\* Person of the error messages page, with its identifier annotations.
PersonWithIdentifiers ==
    SStruct("{ readonly name: string; readonly age: number }",
            <<Field("name", [SString EXCEPT !.ann = Annotations("", "", "Name", "", "", "")]),
              Field("age", [SNumber EXCEPT !.ann = Annotations("", "", "Age", "", "", "")])>>,
            Annotations("", "", "Person", "", "", ""))

PageSchemas == { Person, PersonWithIdentifiers }

\* The output the error messages page records for the call of its "Type
\* Mismatch" example.
TypeMismatchRecorded ==
    <<[depth |-> 0, text |-> <<"Date">>],
      [depth |-> 1, text |-> <<"Predicate refinement failure">>],
      [depth |-> 2, text |-> <<"Expected ", "Date", ", actual ", "Invalid Date">>]>>

\* The message of the ParseError a page shows for a failed call: the tree
\* of the issue, and for decodeUnknownSync(schema)(null) of the error
\* messages page what that page records.
PageRecords(page, schema, input, issue) ==
    IF page = "part_001" /\ schema = Person /\ input = VNull
    THEN TypeMismatchRecorded
    ELSE TreeLines(issue, 0)

\* Schema.decodeUnknownSync(schema)(input, options), up to the point where it
\* returns or is about to throw
PageDecode ==
    /\ pagePc = "call"
    /\ pageResult' = Decode(pageSchema, pageInput, pageOptions)
    /\ pagePc' = IF pageResult'.ok THEN "returned" ELSE "failed"
    /\ UNCHANGED <<pageName, pageSchema, pageInput, pageOptions, pageThrown>>
    /\ UNCHANGED notPageVars

\* throws: ParseError
PageThrow ==
    /\ pagePc = "failed"
    /\ pageThrown' = PageRecords(pageName, pageSchema, pageInput, pageResult.issue)
    /\ pagePc' = "thrown"
    /\ UNCHANGED <<pageName, pageSchema, pageInput, pageOptions, pageResult>>
    /\ UNCHANGED notPageVars

PageInit ==
    /\ pageName \in Pages
    /\ pageSchema \in PageSchemas
    /\ pageInput \in PersonInputs
    /\ pageOptions \in [errors : ErrorsSettings, onExcessProperty : {"ignore"}]
    /\ pagePc = "call"
    /\ pageResult = ParseOk(VNull)
    /\ pageThrown = <<>>

\* No call of a page is run.
PageIdle ==
    /\ pageName = "none"
    /\ pageSchema = SString
    /\ pageInput = VNull
    /\ pageOptions = [errors |-> "first", onExcessProperty |-> "ignore"]
    /\ pagePc = "idle"
    /\ pageResult = ParseOk(VNull)
    /\ pageThrown = <<>>

-----------------------------------------------------------------------------
(* Specifications *)

Init ==
    /\ IconInit
    /\ RepIdle
    /\ UntilIdle
    /\ ConcIdle
    /\ RedactedInit
    /\ AsyncIdle
    /\ ParseIdle
    /\ MessageIdle
    /\ FallbackIdle
    /\ OptionIdle
    /\ SafeDecodeIdle
    /\ PageIdle

Next == Render

Spec == Init /\ [][Next]_vars

InitRepetition ==
    /\ RepetitionInit
    /\ IconInit
    /\ UntilIdle
    /\ ConcIdle
    /\ RedactedInit
    /\ AsyncIdle
    /\ ParseIdle
    /\ MessageIdle
    /\ FallbackIdle
    /\ OptionIdle
    /\ SafeDecodeIdle
    /\ PageIdle

NextRepetition == Start \/ Execute \/ ScheduleStep \/ OrElse

SpecRepetition == InitRepetition /\ [][NextRepetition]_vars

InitCondition ==
    /\ UntilInit
    /\ IconInit
    /\ RepIdle
    /\ ConcIdle
    /\ RedactedInit
    /\ AsyncIdle
    /\ ParseIdle
    /\ MessageIdle
    /\ FallbackIdle
    /\ OptionIdle
    /\ SafeDecodeIdle
    /\ PageIdle

NextCondition == UntilExecute \/ UntilCheck

SpecCondition == InitCondition /\ [][NextCondition]_vars

InitConcurrency ==
    /\ ConcInit
    /\ IconInit
    /\ RepIdle
    /\ UntilIdle
    /\ RedactedInit
    /\ AsyncIdle
    /\ ParseIdle
    /\ MessageIdle
    /\ FallbackIdle
    /\ OptionIdle
    /\ SafeDecodeIdle
    /\ PageIdle

NextConcurrency == StartTask \/ Tick \/ Finish \/ Complete

SpecConcurrency == InitConcurrency /\ [][NextConcurrency]_vars

InitRedacted ==
    /\ RedactedInit
    /\ IconInit
    /\ RepIdle
    /\ UntilIdle
    /\ ConcIdle
    /\ AsyncIdle
    /\ ParseIdle
    /\ MessageIdle
    /\ FallbackIdle
    /\ OptionIdle
    /\ SafeDecodeIdle
    /\ PageIdle

NextRedacted == RedactedMake \/ RedactedValue \/ RedactedUnsafeWipe

SpecRedacted == InitRedacted /\ [][NextRedacted]_vars

InitAsync ==
    /\ AsyncInit
    /\ IconInit
    /\ RepIdle
    /\ UntilIdle
    /\ ConcIdle
    /\ RedactedInit
    /\ ParseIdle
    /\ MessageIdle
    /\ FallbackIdle
    /\ OptionIdle
    /\ SafeDecodeIdle
    /\ PageIdle

NextAsync == AsyncCheck \/ AsyncTransform \/ AsyncTick \/ AsyncResume

SpecAsync == InitAsync /\ [][NextAsync]_vars

InitParse ==
    /\ ParseInit
    /\ IconInit
    /\ RepIdle
    /\ UntilIdle
    /\ ConcIdle
    /\ RedactedInit
    /\ AsyncIdle
    /\ MessageIdle
    /\ FallbackIdle
    /\ OptionIdle
    /\ SafeDecodeIdle
    /\ PageIdle

NextParse == ParseDecode \/ FormatTree \/ FormatArray

SpecParse == InitParse /\ [][NextParse]_vars

InitMessage ==
    /\ MessageInit
    /\ IconInit
    /\ RepIdle
    /\ UntilIdle
    /\ ConcIdle
    /\ RedactedInit
    /\ AsyncIdle
    /\ ParseIdle
    /\ FallbackIdle
    /\ OptionIdle
    /\ SafeDecodeIdle
    /\ PageIdle

NextMessage == MessageDecode \/ MessageThrow

SpecMessage == InitMessage /\ [][NextMessage]_vars

InitFallback ==
    /\ FallbackInit
    /\ IconInit
    /\ RepIdle
    /\ UntilIdle
    /\ ConcIdle
    /\ RedactedInit
    /\ AsyncIdle
    /\ ParseIdle
    /\ MessageIdle
    /\ OptionIdle
    /\ SafeDecodeIdle
    /\ PageIdle

NextFallback ==
    \/ FallbackDecode
    \/ FallbackInvoke
    \/ FallbackTick
    \/ FallbackSettle

SpecFallback == InitFallback /\ [][NextFallback]_vars

InitOption ==
    /\ OptionInit
    /\ IconInit
    /\ RepIdle
    /\ UntilIdle
    /\ ConcIdle
    /\ RedactedInit
    /\ AsyncIdle
    /\ ParseIdle
    /\ MessageIdle
    /\ FallbackIdle
    /\ SafeDecodeIdle
    /\ PageIdle

NextOption == OptionEncode \/ OptionDecode

SpecOption == InitOption /\ [][NextOption]_vars

InitSafeDecode ==
    /\ IconInit
    /\ RepIdle
    /\ UntilIdle
    /\ ConcIdle
    /\ RedactedInit
    /\ AsyncIdle
    /\ ParseIdle
    /\ MessageIdle
    /\ FallbackIdle
    /\ OptionIdle
    /\ PageIdle
    /\ SafeDecodeInit

NextSafeDecode == DecodeSafely \/ EncodeEither

SpecSafeDecode == InitSafeDecode /\ [][NextSafeDecode]_vars

InitPages ==
    /\ IconInit
    /\ RepIdle
    /\ UntilIdle
    /\ ConcIdle
    /\ RedactedInit
    /\ AsyncIdle
    /\ ParseIdle
    /\ MessageIdle
    /\ FallbackIdle
    /\ OptionIdle
    /\ SafeDecodeIdle
    /\ PageInit

NextPages == PageDecode \/ PageThrow

SpecPages == InitPages /\ [][NextPages]_vars

-----------------------------------------------------------------------------
(* Properties of the icon component *)

Rendered == 1..Len(renders)

\* C1: two renders given equal className values produce identical markup,
\* whatever renders happened before or in between: the markup of a render is
\* the markup the very first render yields for that className.
C1_Deterministic ==
    /\ \A i, j \in Rendered :
          renders[i].props.className = renders[j].props.className
              => renders[i].element = renders[j].element
    /\ \A i \in Rendered :
          renders[i].element
              = PocketCastsIcon([className |-> renders[i].props.className,
                                 other |-> "none"]).element

\* The same className rendered first and last with another one in between.
C1_Witness ==
    /\ Len(renders) = MaxRenders
    /\ renders[1].props.className = renders[MaxRenders].props.className
    /\ renders[2].props.className # renders[1].props.className
    /\ renders[2].element # renders[1].element

\* C2: every render yields one svg element with the fixed xmlns and viewBox
\* holding exactly one path child with fillRule evenodd, clipRule evenodd and
\* the constant d; two renders differ in the svg's class attribute at most.
C2_FixedMarkup ==
    /\ \A i \in Rendered :
          LET e == renders[i].element
          IN /\ e.type = "svg"
             /\ e.xmlns = "http://www.w3.org/2000/svg"
             /\ e.viewBox = "0 0 256 256"
             /\ Len(e.children) = 1
             /\ e.children[1].type = "path"
             /\ e.children[1].fillRule = "evenodd"
             /\ e.children[1].clipRule = "evenodd"
             /\ e.children[1].d = PathD
    /\ \A i, j \in Rendered :
          [renders[i].element EXCEPT !.className = renders[j].element.className]
              = renders[j].element

\* Two renders whose class attributes differ.
C2_Witness ==
    \E i, j \in Rendered :
        renders[i].element.className # renders[j].element.className

\* C3: for every className, a string or none at all, the render returns the
\* svg element; no render throws.
C3_NoErrors ==
    \A i \in Rendered :
        renders[i].outcome = "returned" /\ renders[i].element.type = "svg"

\* Renders without a className, with the empty string and with classes.
C3_Witness ==
    /\ \E i \in Rendered : renders[i].props.className = Undefined
    /\ \E i \in Rendered : renders[i].props.className = Str(<<>>)
    /\ \E i \in Rendered : renders[i].props.className.tokens # <<>>

\* C4: a render leaves the props object it was given and the component's
\* displayName as they were.
C4_NoSideEffects ==
    /\ displayName = "PocketCastsIcon"
    /\ \A i \in Rendered : renders[i].propsAfter = renders[i].props

\* A render of props with a className and a further prop has happened.
C4_Witness ==
    \E i \in Rendered :
        /\ renders[i].props.className.tokens # <<>>
        /\ renders[i].props.other # "none"
        /\ renders[i].outcome = "returned"

\* C5 as stated: computing the output involves no call into any other
\* module of the repository.
C5_NoCalls ==
    \A i \in Rendered : renders[i].calls = <<>>

\* C5: the output consists of host elements only (no other in-repo component
\* is rendered) and computing it makes exactly one call into another module
\* of the repository, cn of @/lib/utils.
C5_OnlyCn ==
    \A i \in Rendered :
        /\ renders[i].element.type = "svg"
        /\ \A k \in 1..Len(renders[i].element.children) :
               renders[i].element.children[k].type = "path"
        /\ Len(renders[i].calls) = 1
        /\ renders[i].calls[1].module = "@/lib/utils"
        /\ renders[i].calls[1].fn = "cn"

\* Every allowed render has been made and each one called cn.
C5_Witness ==
    /\ Len(renders) = MaxRenders
    /\ \A i \in Rendered : renders[i].calls # <<>>

\* C6: renders whose props agree on className produce the same markup even
\* when the other props differ, and no other prop reaches the svg element.
C6_SingleInput ==
    /\ \A i \in Rendered : renders[i].element.forwarded = "none"
    /\ \A i, j \in Rendered :
           (/\ renders[i].props.className = renders[j].props.className
            /\ renders[i].props.other # renders[j].props.other)
               => renders[i].element = renders[j].element

\* Two renders with the same className and different other props.
C6_Witness ==
    \E i, j \in Rendered :
        /\ renders[i].props.className = renders[j].props.className
        /\ renders[i].props.other # "none"
        /\ renders[j].props.other # "none"
        /\ renders[i].props.other # renders[j].props.other

\* C27: the class attribute of the svg is the result of the one cn call, whose
\* arguments are the base class "fill-current" first and the caller's
\* className second, also when className is absent; so a caller's class of
\* the fill group replaces the base class and never the other way round.
C27_ClassAttribute ==
    \A i \in Rendered :
        LET r == renders[i]
        IN /\ Len(r.calls) = 1
           /\ r.calls[1].args = <<Str(<<"fill-current">>), r.props.className>>
           /\ r.element.className = cn(r.calls[1].args)
           /\ r.props.className \in {Undefined, Str(<<>>)}
                  => r.element.className = Str(<<"fill-current">>)
           /\ r.props.className = Str(<<"fill-red-500">>)
                  => r.element.className = Str(<<"fill-red-500">>)

\* Renders without a className and with a class of the fill group.
C27_Witness ==
    /\ \E i \in Rendered : /\ renders[i].props.className = Undefined
                           /\ renders[i].element.className = Str(<<"fill-current">>)
    /\ \E i \in Rendered : /\ renders[i].props.className = Str(<<"fill-red-500">>)
                           /\ renders[i].element.className.tokens = <<"fill-red-500">>

-----------------------------------------------------------------------------
(* Properties of the repetition operators *)

\* The executions of the action so far, as positions of the console output.
Executed == { i \in 1..Len(log) : log[i] \in {"success", "failure"} }

Failed == { i \in 1..Len(log) : log[i] = "failure" }

\* C7: when every execution succeeds, repeat with recurs(n) and repeatN with
\* n never execute the action more than n+1 times and have executed it
\* exactly n+1 times when they complete; repeat completes with the count n.
C7_RecurrencesInAddition ==
    (op \in {"repeat", "repeatN"} /\ Failed = {}) =>
        /\ Cardinality(Executed) <= times + 1
        /\ pc = "done" =>
              /\ Cardinality(Executed) = times + 1
              /\ exit.tag = "Success"
              /\ op = "repeat" => (exit.of = "schedule output" /\ exit.n = times)

\* The success example of the page: three executions, repetitions: 2.
C7_Witness ==
    /\ op = "repeat" /\ action = "log" /\ times = 2
    /\ pc = "done"
    /\ log = <<"success", "success", "success">>
    /\ exit = ExitCount("schedule output", 2)

\* C8: under Effect.repeat the first failed execution is the last execution,
\* also when the schedule would grant further recurrences, and the program
\* ends as a Failure whose cause is that execution's failure value.
C8_StopsAtFirstFailure ==
    (op = "repeat" /\ Failed # {}) =>
        /\ Cardinality(Failed) = 1
        /\ log[Len(log)] = "failure"
        /\ pc = "done"
        /\ exit = ExitFail("Uh oh!")

\* An execution failed while the schedule still allowed recurrences.
C8_Witness ==
    /\ op = "repeat"
    /\ Failed # {}
    /\ recurrences < times
    /\ Cardinality(Executed) >= 2

\* C9: under repeatOrElse a failed execution is the last execution, the
\* handler is invoked exactly once with the failure value and its result is
\* the program's successful result; without a failure it is never invoked.
C9_OrElseHandler ==
    op = "repeatOrElse" =>
        /\ Failed = {} => handlerCalls = <<>>
        /\ Failed # {} =>
              /\ Cardinality(Failed) = 1
              /\ \A i \in Executed : i <= CHOOSE f \in Failed : TRUE
              /\ pc \in {"orElse", "done"}
              /\ pc = "orElse" => handlerCalls = <<>>
              /\ pc = "done" =>
                    /\ handlerCalls = <<"Uh oh!">>
                    /\ log[Len(log)] = "orElse"
                    /\ exit = ExitCount("handler result", count - 1)
        /\ (pc = "done" /\ Failed = {}) => exit = ExitCount("schedule output", times)

\* The repeatOrElse example of the page: the handler ran, repetitions: 1.
C9_Witness ==
    /\ op = "repeatOrElse" /\ action = "counter" /\ failAfter = 1 /\ times = 2
    /\ pc = "done"
    /\ log = <<"success", "success", "failure", "orElse">>
    /\ handlerCalls = <<"Uh oh!">>
    /\ exit = ExitCount("handler result", 1)

\* C10: Effect.schedule with an always-succeeding action and recurs(n)
\* executes the action exactly n times, one fewer than Effect.repeat, and
\* completes with the count n; for recurs(2), two executions and the count 2.
C10_ScheduleSkipsFirst ==
    (op = "schedule" /\ action = "log") =>
        /\ Cardinality(Executed) <= times
        /\ pc = "done" =>
              /\ Cardinality(Executed) = times
              /\ exit = ExitCount("schedule output", times)

\* The Effect.schedule example of the page: two executions, repetitions: 2.
C10_Witness ==
    /\ op = "schedule" /\ action = "log" /\ times = 2
    /\ pc = "done"
    /\ log = <<"success", "success">>
    /\ exit = ExitCount("schedule output", 2)

-----------------------------------------------------------------------------
(* Properties of repeating based on a condition *)

\* C11: with { until: p } no execution follows one whose result satisfies p,
\* and the program completes after exactly k executions, k the first result
\* satisfying p; for p = (n === 3), after exactly 3 executions.
C11_UntilFirstMatch ==
    untilOption = "until" =>
        /\ \A i \in 1..Len(untilLog) - 1 : untilLog[i] \notin untilPred
        /\ untilPc = "done" =>
              /\ untilPred # {}
              /\ Len(untilLog) = CHOOSE k \in untilPred : \A m \in untilPred : k <= m
              /\ untilLog[Len(untilLog)] \in untilPred
              /\ untilExit = Len(untilLog)

\* The example of the page: until n === 3, three executions.
C11_Witness ==
    /\ untilOption = "until" /\ untilPred = {3}
    /\ untilPc = "done"
    /\ untilLog = <<1, 2, 3>>

-----------------------------------------------------------------------------
(* Properties of the concurrency annotation and of propertyOrder *)

\* C12: without a concurrency annotation the member validations of a Tuple
\* run one at a time in element order: a validation starts only when all
\* earlier ones have finished, so the completion order is 1, 2, 3 whatever
\* the durations.
C12_SequentialInOrder ==
    (schemaKind = "Tuple" /\ concurrency = ConcurrencyAbsent) =>
        /\ Cardinality(Running) <= 1
        /\ \A i \in Members :
              taskStatus[i] # "pending" =>
                  \A h \in Members : h < i => taskStatus[h] = "done"
        /\ DoneOrder = SubSeq(<<1, 2, 3>>, 1, Len(DoneOrder))

\* The sequential example of the page: 30, 10, 20 millis, order 1, 2, 3.
C12_Witness ==
    /\ schemaKind = "Tuple" /\ concurrency = ConcurrencyAbsent
    /\ durations = <<3, 1, 2>>
    /\ decodePc = "done"
    /\ DoneOrder = <<1, 2, 3>>

\* C13: with concurrency "unbounded" every member validation of a Tuple is
\* started before any time passes, the validations complete in order of
\* increasing duration (30, 10, 20 millis complete in the order 2, 3, 1), and
\* the decode finishes only after every validation has finished.
C13_UnboundedByDuration ==
    (schemaKind = "Tuple" /\ concurrency = ConcurrencyUnbounded) =>
        /\ (\E i \in Members : taskStatus[i] = "running" /\ remaining[i] < durations[i])
              => Pending = {}
        /\ DoneOrder # <<>> => Pending = {}
        /\ \A p, q \in 1..Len(DoneOrder) :
              p < q => durations[DoneOrder[p]] <= durations[DoneOrder[q]]
        /\ decodePc = "done" => Len(DoneOrder) = Cardinality(Members)

\* The concurrent example of the page: 30, 10, 20 millis, order 2, 3, 1.
C13_Witness ==
    /\ schemaKind = "Tuple" /\ concurrency = ConcurrencyUnbounded
    /\ durations = <<3, 1, 2>>
    /\ decodePc = "done"
    /\ DoneOrder = <<2, 3, 1>>

\* C14: with propertyOrder "original" the keys of a decoded Struct are in
\* the order of the input, whatever the concurrency annotation and whatever
\* order the member decoders completed in.
C14_OriginalOrder ==
    (schemaKind = "Struct" /\ propertyOrder = "original" /\ decodePc = "done")
        => output = inputOrder

\* The asynchronous example of the page: concurrency 3, sleeps 200, 300 and
\* 100 millis, completion order c, a, b, output in input order a, b, c.
C14_Witness ==
    /\ schemaKind = "Struct" /\ propertyOrder = "original"
    /\ concurrency = ConcurrencyNumber(3)
    /\ durations = <<2, 3, 1>>
    /\ inputOrder = <<1, 2, 3>>
    /\ decodePc = "done"
    /\ DoneOrder = <<3, 1, 2>>
    /\ output = <<1, 2, 3>>

-----------------------------------------------------------------------------
(* Properties of Redacted *)

\* The instance of call k was wiped by an earlier call.
WipedBefore(k) ==
    \E j \in 1..(k - 1) :
        redEvents[j].op = "unsafeWipe" /\ redEvents[j].id = redEvents[k].id

\* C15: every Redacted.value call before unsafeWipe of the instance returns
\* the value it was made from, and every Redacted.value call after unsafeWipe
\* of that instance throws "Unable to get redacted value".
C15_RedactedLifecycle ==
    \A k \in 1..Len(redEvents) :
        redEvents[k].op = "value" =>
            IF WipedBefore(k)
            THEN /\ redEvents[k].outcome = "threw"
                 /\ redEvents[k].value = "Unable to get redacted value"
            ELSE /\ redEvents[k].outcome = "returned"
                 /\ redEvents[k].value = instances[redEvents[k].id]

\* The unsafeWipe example of the page: make, value, unsafeWipe, value.
C15_Witness ==
    /\ Len(redEvents) = 4
    /\ redEvents[1].op = "make"
    /\ redEvents[2] = RedactedEvent("value", 1, "returned", "1234567890")
    /\ redEvents[3].op = "unsafeWipe" /\ redEvents[3].id = 1
    /\ redEvents[4] = RedactedEvent("value", 1, "threw", "Unable to get redacted value")

-----------------------------------------------------------------------------
(* Properties of decoding asynchronous transformations *)

\* C16: on a schema whose decode performs async work and an input the
\* schema decodes, decodeUnknownEither returns a Left holding a Forbidden
\* issue, and for no input the decoded value; decodeUnknown, run as an
\* Effect, completes with the decoded value.
C16_SyncCannotResolveAsync ==
    (transformDelay > 0 /\ asyncPc = "done") =>
        /\ decoder = "decodeUnknownEither" =>
              /\ asyncResult.shape = "Left"
              /\ asyncResult.value = NoPerson
              /\ asyncInput.isNumber => asyncResult.issue = "Forbidden"
        /\ (decoder = "decodeUnknown" /\ asyncInput.isNumber) =>
              /\ asyncResult.shape = "Success"
              /\ asyncResult.value = PersonOf(asyncInput.n)

\* The example of the page, input 1: the synchronous decoder ended with
\* Left(Forbidden).
C16_Witness ==
    /\ decoder = "decodeUnknownEither" /\ transformDelay = 1
    /\ asyncInput = [isNumber |-> TRUE, n |-> 1]
    /\ asyncPc = "done"
    /\ asyncResult = [shape |-> "Left", value |-> NoPerson, issue |-> "Forbidden"]

-----------------------------------------------------------------------------
(* Properties of the parse options and of the error formatters *)

Decoded == parsePc = "decoded"

\* The schema is a struct of strings and numbers without parseOptions.
FlatSchema ==
    /\ parseSchema.kind = "Struct"
    /\ parseSchema.ann.parseErrors = ""
    /\ \A i \in 1..Len(parseSchema.fields) : parseSchema.fields[i].schema.kind # "Struct"

KeysOf(v) == { v.props[i].key : i \in 1..Len(v.props) }

\* The keys of the input the schema does not name.
ExcessKeys(schema, v) == KeysOf(v) \ FieldKeys(schema)

\* The keys of the schema the input lacks.
MissingKeys(schema, v) == FieldKeys(schema) \ KeysOf(v)

\* The keys of the schema the input has with a value of the wrong type.
InvalidKeys(schema, v) ==
    { schema.fields[i].key : i \in { j \in 1..Len(schema.fields) :
          /\ HasKey(v, schema.fields[j].key)
          /\ schema.fields[j].schema.kind = "String"
                => Get(v, schema.fields[j].key).t # "string"
          /\ schema.fields[j].schema.kind = "Number"
                => Get(v, schema.fields[j].key).t # "number"
          /\ schema.fields[j].schema.kind = "Struct"
                => Get(v, schema.fields[j].key).t # "object" } }

\* The keys of an object input that are in error under the options.
ErrorKeys(schema, v, opts) ==
    MissingKeys(schema, v) \cup InvalidKeys(schema, v)
        \cup (IF opts.onExcessProperty = "error" THEN ExcessKeys(schema, v) ELSE {})

ReportedKeys(issue) == { issue.children[i].key : i \in 1..Len(issue.children) }

\* The keys the tree names right below its title, and the first path
\* element of the array entries.
TreeKeys == { treeOutput[i].text[2] : i \in { j \in 1..Len(treeOutput) : treeOutput[j].depth = 1 } }

ArrayKeys == { arrayOutput[i].path[1] : i \in 1..Len(arrayOutput) }

\* C17: a failed decode of a struct with k keys in error reports one issue
\* with errors "first" and exactly those k issues with errors "all", and
\* TreeFormatter and ArrayFormatter both show what was reported.
C17_ErrorsOption ==
    (Decoded /\ FlatSchema /\ parseInput.t = "object") =>
        LET bad == ErrorKeys(parseSchema, parseInput, parseOptions)
        IN /\ parseResult.ok <=> bad = {}
           /\ ~parseResult.ok =>
                 LET shown == ReportedKeys(parseResult.issue)
                 IN /\ parseOptions.errors = "all" =>
                          /\ shown = bad
                          /\ Len(parseResult.issue.children) = Cardinality(bad)
                    /\ parseOptions.errors = "first" =>
                          /\ Len(parseResult.issue.children) = 1
                          /\ shown \subseteq bad
                    /\ treeOutput # <<>> =>
                          /\ TreeKeys = shown
                          /\ Len(treeOutput) = 1 + 2 * Len(parseResult.issue.children)
                    /\ arrayOutput # <<>> =>
                          /\ ArrayKeys = shown
                          /\ Len(arrayOutput) = Len(parseResult.issue.children)

\* The examples of the page: Person decodes {} with errors "all", and both
\* formatters show name and age as missing.
C17_Witness ==
    /\ Decoded /\ parseSchema = Person /\ parseInput = VObj(<<>>)
    /\ parseOptions.errors = "all"
    /\ arrayOutput = <<[_tag |-> "Missing", path |-> <<"name">>, message |-> <<"is missing">>],
                       [_tag |-> "Missing", path |-> <<"age">>, message |-> <<"is missing">>]>>
    /\ treeOutput =
         <<[depth |-> 0, text |-> <<"{ readonly name: string; readonly age: number }">>],
           [depth |-> 1, text |-> <<"[", "name", "]">>],
           [depth |-> 2, text |-> <<"is missing">>],
           [depth |-> 1, text |-> <<"[", "age", "]">>],
           [depth |-> 2, text |-> <<"is missing">>]>>

\* The schema is the one of the parseOptions example.
IsLayered == parseSchema.kind = "Struct" /\ parseSchema.syntax = Layered("", "").syntax

\* The issue reported for key k, if any.
ChildAt(issue, k) ==
    issue.children[CHOOSE i \in 1..Len(issue.children) : issue.children[i].key = k].issue

\* C18: the errors setting a struct is parsed with is the one of its own
\* parseOptions annotation if it has one, otherwise the one of the enclosing
\* struct, and for the root the one of the call: a root annotated "all"
\* reports all of its errors even when the call passes "first", and a nested
\* struct annotated "first" reports only its first error.
C18_SchemaLevelOptions ==
    (Decoded /\ IsLayered /\ ~parseResult.ok) =>
        LET rootErrors == IF parseSchema.ann.parseErrors # ""
                          THEN parseSchema.ann.parseErrors ELSE parseOptions.errors
            inner == parseSchema.fields[1].schema
            innerErrors == IF inner.ann.parseErrors # ""
                           THEN inner.ann.parseErrors ELSE rootErrors
            issue == parseResult.issue
            bad == MissingKeys(parseSchema, parseInput)
                     \cup { k \in {"a"} : /\ HasKey(parseInput, "a")
                                          /\ MissingKeys(inner, Get(parseInput, "a")) # {} }
        IN /\ rootErrors = "all" => ReportedKeys(issue) = bad
           /\ rootErrors = "first" => Len(issue.children) = 1
           /\ (\E i \in 1..Len(issue.children) :
                   issue.children[i].key = "a" /\ issue.children[i].issue.tag = "Composite")
                 => LET sub == ChildAt(issue, "a")
                        subBad == MissingKeys(inner, Get(parseInput, "a"))
                    IN /\ innerErrors = "all" => ReportedKeys(sub) = subBad
                       /\ innerErrors = "first" => Len(sub.children) = 1

\* The example of the page: root "all", nested "first", the call passes
\* errors "first" and { a: {} }.
C18_Witness ==
    /\ Decoded /\ parseSchema = Layered("all", "first")
    /\ parseInput = VObj(<<Prop("a", VObj(<<>>))>>)
    /\ parseOptions.errors = "first"
    /\ treeOutput =
         <<[depth |-> 0, text |-> <<"all errors">>],
           [depth |-> 1, text |-> <<"[", "d", "]">>],
           [depth |-> 2, text |-> <<"is missing">>],
           [depth |-> 1, text |-> <<"[", "a", "]">>],
           [depth |-> 2, text |-> <<"first error only">>],
           [depth |-> 3, text |-> <<"[", "b", "]">>],
           [depth |-> 4, text |-> <<"is missing">>]>>

\* The input is an object whose named properties are all valid for Person.
ValidButForExcess ==
    /\ parseSchema = Person
    /\ parseInput.t = "object"
    /\ MissingKeys(Person, parseInput) = {}
    /\ InvalidKeys(Person, parseInput) = {}

UnexpectedAt(k) ==
    \E i \in 1..Len(parseResult.issue.children) :
        /\ parseResult.issue.children[i].key = k
        /\ parseResult.issue.children[i].issue.tag = "Unexpected"

\* The named properties of the input, in schema order.
NamedProps(schema, v) ==
    [i \in 1..Len(schema.fields) |->
        Prop(schema.fields[i].key, Get(v, schema.fields[i].key))]

IsOrder == parseSchema.kind = "Struct" /\ parseSchema.syntax = Order(NoAnnotations).syntax

\* C20: the title TreeFormatter gives a failing schema is its message
\* annotation; otherwise the string its parseIssueTitle annotation returns;
\* and when that is absent or returns undefined, its identifier, else its
\* title, else its description, else the default TypeScript-like syntax.
C20_TitlePriority ==
    (Decoded /\ IsOrder /\ treeOutput # <<>>) =>
        LET a == parseSchema.ann
            hasId == parseInput.t = "object" /\ HasKey(parseInput, "id")
            shown == IF parseResult.issue.tag = "Composite"
                     THEN treeOutput[1].text
                     ELSE IF a.message # "" THEN treeOutput[1].text
                     ELSE SubSeq(treeOutput[1].text, 2, Len(treeOutput[1].text) - 2)
        IN /\ a.message # "" => shown = <<a.message>>
           /\ (a.message = "" /\ a.parseIssueTitle # "" /\ hasId)
                 => shown = <<"Order with id: ", Get(parseInput, "id").json>>
           /\ (a.message = "" /\ (a.parseIssueTitle = "" \/ ~hasId)) =>
                 /\ a.identifier # "" => shown = <<a.identifier>>
                 /\ (a.identifier = "" /\ a.title # "") => shown = <<a.title>>
                 /\ (a.identifier = "" /\ a.title = "" /\ a.description # "")
                       => shown = <<a.description>>
                 /\ (a.identifier = "" /\ a.title = "" /\ a.description = "")
                       => shown = <<parseSchema.syntax>>

\* The example of the page: an Order with identifier and parseIssueTitle,
\* decoded from { id: 1 }, is titled "Order with id: 1".
C20_Witness ==
    /\ Decoded
    /\ parseSchema = Order(Annotations("", "getOrderId", "Order", "Order title", "An order", ""))
    /\ parseInput = VObj(<<Prop("id", VNum("1"))>>)
    /\ treeOutput # <<>>
    /\ treeOutput[1].text = <<"Order with id: ", "1">>

-----------------------------------------------------------------------------
(* Properties of the custom messages *)

\* The first schema of the chain that fails on the input, counted from the
\* innermost: 1 String, 2 minLength(1), 3 maxLength(2).
FirstFailed ==
    IF msgInput.t # "string" THEN 1
    ELSE IF Len(msgInput.chars) < 1 THEN 2
    ELSE 3

\* The default message of a schema of the chain for the input.
DefaultMessage(n) ==
    <<"Expected ">>
      \o <<<<"string">>,
           <<"a string at least ", "1", " character(s) long">>,
           <<"a string at most ", "2", " character(s) long">>>>[n]
      \o <<", actual ">> \o Json(msgInput)

\* The texts of the lines thrown.
ThrownTexts == { msgThrown[k].text : k \in 1..Len(msgThrown) }

LastThrown == msgThrown[Len(msgThrown)].text

\* C21: without an override flag anywhere, the failure is described by the
\* message of the first failed schema, innermost first, and by its default
\* message when it carries none; the message of any other schema is not
\* shown, so the message on the last refinement appears exactly when that
\* refinement's own predicate fails.
C21_FirstFailedMessage ==
    (msgPc = "thrown" /\ \A n \in 1..3 : ~messages[n].override) =>
        /\ LastThrown = IF messages[FirstFailed].text # ""
                        THEN <<messages[FirstFailed].text>>
                        ELSE DefaultMessage(FirstFailed)
        /\ \A n \in 1..3 :
              (n # FirstFailed /\ messages[n].text # "")
                  => <<messages[n].text>> \notin ThrownTexts
        /\ (<<"maxLength custom message">> \in ThrownTexts)
              <=> (messages[3].text # "" /\ FirstFailed = 3)

\* The page's decode("") with the message on the last refinement only.
C21_Witness ==
    /\ msgPc = "thrown"
    /\ messages = <<NoMessage, NoMessage, Message("maxLength custom message")>>
    /\ msgInput = StringOf(<<>>)
    /\ msgThrown
         = <<Line(0, <<"a string at most ", "2", " character(s) long">>),
             Line(1, <<"From side refinement failure">>),
             Line(2, <<"a string at least ", "1", " character(s) long">>),
             Line(3, <<"Predicate refinement failure">>),
             Line(4, <<"Expected ", "a string at least ", "1",
                       " character(s) long", ", actual ", "\"", "\"">>)>>

\* C22: a message with override: true is shown for every failure of the
\* schema it annotates, whichever inner schema or refinement failed: it
\* stands in place of the default messages of that schema and of the
\* messages of the schemas inside it; annotated on the whole schema, it is
\* all that is thrown.
C22_OverrideMessage ==
    msgPc = "thrown" =>
        \A n \in FirstFailed..3 :
            (/\ messages[n].override
             /\ \A o \in (n + 1)..3 : ~messages[o].override) =>
                /\ LastThrown = <<messages[n].text>>
                /\ \A i \in 1..n : DefaultMessage(i) \notin ThrownTexts
                /\ \A i \in 1..(n - 1) : <<messages[i].text>> \notin ThrownTexts
                /\ n = 3 => msgThrown = <<Line(0, <<messages[3].text>>)>>

\* The overriding message on the last refinement is thrown for a failure
\* of Schema.String, which has a message of its own.
C22_Witness ==
    /\ msgPc = "thrown"
    /\ messages[3] = MessageOverride("maxLength custom message")
    /\ messages[1] = Message("String custom message")
    /\ msgInput = NullValue
    /\ msgThrown = <<Line(0, <<"maxLength custom message">>)>>

-----------------------------------------------------------------------------
(* Properties of the decodingFallback annotation *)

\* C23: once a decode against a schema with a decodingFallback is done: if
\* the input failed to decode, the fallback was called once, with the parse
\* issue, and the result of the decode is what the fallback produced, its
\* value or its failure; if the input decoded, the fallback was not called
\* and the result is the decoded value.
C23_FallbackResult ==
    (fbPc = "done" /\ fbFallback.set) =>
        IF fbInput.t = "string"
        THEN fbCalls = <<>> /\ fbResult = ParseOk(fbInput)
        ELSE /\ fbCalls = <<Issue("Type", SString, fbInput, <<>>)>>
             /\ fbResult = fbProduced
             /\ fbResult = IF fbFallback.produces = "right"
                           THEN ParseOk(fbFallback.value)
                           ELSE ParseFail(Issue("Forbidden", SString, fbInput, <<>>))

-----------------------------------------------------------------------------
(* Properties of OptionFromNonEmptyTrimmedString *)

\* An Option was encoded and the result decoded again.
RoundTripDone == optPc = "done" /\ optStart = "encode"

-----------------------------------------------------------------------------
(* Properties of SafeDecode *)

\* The inputs the three schemas accept and what they decode them to.
SelfAccepts ==
    IF safeSelf.kind = "String" THEN safeInput.t = "string"
    ELSE IF safeSelf.kind = "Number" THEN safeInput.t = "number"
    ELSE /\ safeInput.t = "object"
         /\ HasKey(safeInput, "name") /\ Get(safeInput, "name").t = "string"
         /\ HasKey(safeInput, "age") /\ Get(safeInput, "age").t = "number"

SelfDecoded ==
    IF safeSelf.kind = "Struct"
    THEN VObj(<<Prop("name", Get(safeInput, "name")), Prop("age", Get(safeInput, "age"))>>)
    ELSE safeInput

\* C25: decoding with SafeDecode(self) never fails: it succeeds with
\* Right(decoded value) when self decodes the input and with Left(the input as
\* it was given) when self rejects it.  Encoding a Right succeeds; encoding a
\* Left fails with a Forbidden issue saying "cannot encode a Left".
C25_SafeDecode ==
    /\ (safeStart = "decode" /\ safePc # "decode") =>
          /\ safePc # "failed"
          /\ safeDecoded.ok
          /\ safeDecoded.value = IF SelfAccepts THEN Right(SelfDecoded)
                                 ELSE Left(safeInput)
    /\ safePc = "done" =>
          IF safeActual._tag = "Right"
          THEN safeEncoded.ok
          ELSE /\ ~safeEncoded.ok
               /\ safeEncoded.issue.tag = "Forbidden"
               /\ safeEncoded.issue.message = "cannot encode a Left"
               /\ safeEncoded.issue.actual = safeActual

\* Person rejected an object without an age: the object came back in a Left,
\* and encoding that Left was refused.
C25_Witness ==
    /\ safePc = "done"
    /\ safeStart = "decode"
    /\ safeSelf = Person
    /\ safeInput = VObj(<<Prop("name", VStr("\"Bob\""))>>)
    /\ safeDecoded = ParseOk(Left(safeInput))
    /\ ~safeEncoded.ok

-----------------------------------------------------------------------------
(* Properties of the documented struct decoding calls *)

\* C26: in every page, decoding null against the struct of name and age
\* fails with the one line "Expected { readonly name: string; readonly age:
\* number }, actual null".
C26_TypeMismatch ==
    (pagePc \in {"returned", "failed", "thrown"} /\ pageSchema = Person /\ pageInput = VNull) =>
        /\ pagePc # "returned"
        /\ pagePc = "thrown" =>
              pageThrown
                = <<[depth |-> 0,
                     text |-> <<"Expected ",
                                "{ readonly name: string; readonly age: number }",
                                ", actual ", "null">>]>>

====
